---- MODULE Spec2Model ----
(***************************************************************************)
(* GeoPySpark codec and framing layer.                                     *)
(*                                                                         *)
(* Python values are modelled as follows:                                  *)
(*   - a dict or a namedtuple is a record; a dict key that is missing is a *)
(*     record field that is missing ("k" \in DOMAIN d);                    *)
(*   - an optional scalar is a set: {} is None, {v} is the value v;        *)
(*   - a numpy array is [shape |-> <<...>>, cells |-> <<...>>], cells in   *)
(*     row-major (C) order, which is what flatten() and reshape() use;     *)
(*   - a protobuf message is a record holding every field, unset fields    *)
(*     holding their proto3 default (0, FALSE, "", <<>>, default message); *)
(*   - a raised exception is the record [err |-> <exception class>];       *)
(*   - a (key, value) tuple is the record [key |-> ..., value |-> ...].    *)
(* Serialized bytes are identified with the message they parse to          *)
(* (SerializeToString / FromString of the protobuf runtime).               *)
(***************************************************************************)
EXTENDS Integers, Sequences, FiniteSets, TLC

VARIABLES pc, schema, tupled, arg, obj, msg, res, msg2,
          serializer, stream, written, collected,
          layer, op, backend, outcome,
          class_metadata_dict, instances, returned,
          cachable, persisted, cachecall

codecVars == <<pc, schema, tupled, arg, obj, msg, res, msg2>>
chanVars == <<serializer, stream, written, collected>>
rddVars == <<layer, op, backend, outcome>>
metaVars == <<class_metadata_dict, instances, returned>>
cacheVars == <<cachable, persisted, cachecall>>
vars == <<pc, schema, tupled, arg, obj, msg, res, msg2,
          serializer, stream, written, collected,
          layer, op, backend, outcome,
          class_metadata_dict, instances, returned,
          cachable, persisted, cachecall>>

(***************************************************************************)
(* Bounds of the model.                                                    *)
(***************************************************************************)
\* cells per band: every shape (rows, cols) with rows*cols <= MaxCells
MaxCells == 2
\* bands per multiband tile
MaxBands == 2
\* frames written onto one channel
MaxFrames == 4

(***************************************************************************)
(* Python / numpy / protobuf runtime helpers.                              *)
(***************************************************************************)
Err(e) == [err |-> e]
IsErr(x) == "err" \in DOMAIN x

PyNone == {}
Some(v) == {v}
TheVal(o) == CHOOSE v \in o : TRUE
\* Python truthiness of an optional number: None and 0 are falsy
Truthy(o) == o # {} /\ o # {0}
\* dict.get(k): None when the key is missing
DictGet(d, k) == IF k \in DOMAIN d THEN d[k] ELSE PyNone

RECURSIVE Flatten(_)
\* concatenation of a list of sequences
Flatten(ss) == IF ss = <<>> THEN <<>> ELSE Head(ss) \o Flatten(Tail(ss))

\* arr.flatten().tolist()
flatten(arr) == arr.cells
ndim(arr) == Len(arr.shape)
\* a reshape that repeats or cuts the buffer to rows*cols values (np.resize)
reshape_resize(cells, rows, cols) ==
    [shape |-> <<rows, cols>>,
     cells |-> [i \in 1..(rows * cols) |->
                  IF cells = <<>> THEN 0 ELSE cells[((i - 1) % Len(cells)) + 1]]]
\* numpy reshape(rows, cols): sizes must agree, else ValueError
reshape(cells, rows, cols) ==
    IF Len(cells) = rows * cols
    THEN [shape |-> <<rows, cols>>, cells |-> cells]
    ELSE Err("ValueError")
\* np.expand_dims(arr, 0)
expand_dims(arr) == [shape |-> <<1>> \o arr.shape, cells |-> arr.cells]
\* np.array([a1, ..., an]) of arrays of one common shape (every list built
\* below holds arrays reshaped to one (rows, cols)); ValueError otherwise
np_array(list) ==
    IF list = <<>> THEN [shape |-> <<0>>, cells |-> <<>>]
    ELSE IF \A i \in 1..Len(list) : list[i].shape = list[1].shape
    THEN [shape |-> <<Len(list)>> \o list[1].shape,
          cells |-> Flatten([i \in 1..Len(list) |-> list[i].cells])]
    ELSE Err("ValueError")
\* arr[index, :, :] of a 3-dimensional array, index counted from 0
band_slice(arr, index) ==
    LET rows == arr.shape[2]
        cols == arr.shape[3]
    IN  [shape |-> <<rows, cols>>,
         cells |-> SubSeq(arr.cells, index * rows * cols + 1, (index + 1) * rows * cols)]

\* two's-complement wrap of v to a signed / unsigned integer of 2^bits values
WrapSigned(v, half) == ((v + half) % (2 * half)) - half
WrapUnsigned(v, size) == v % size
\* np.int8(..), np.uint8(..), np.int16(..), np.uint16(..), np.int32(..),
\* np.float32(..), np.double(..) applied to one wire value.  The sint32
\* container already holds int32 values; float cells are modelled by
\* integers that both float widths represent exactly.
Narrow(data_type, v) ==
    CASE data_type = "BIT" -> WrapSigned(v, 128)
      [] data_type = "BYTE" -> WrapSigned(v, 128)
      [] data_type = "UBYTE" -> WrapUnsigned(v, 256)
      [] data_type = "SHORT" -> WrapSigned(v, 32768)
      [] data_type = "USHORT" -> WrapUnsigned(v, 65536)
      [] OTHER -> v
NarrowAll(data_type, cells) == [i \in 1..Len(cells) |-> Narrow(data_type, cells[i])]

\* a repeated uint32 field rejects negative values (ValueError)
InUint32(v) == v >= 0

(***************************************************************************)
(* Cell types.                                                             *)
(***************************************************************************)
DataTypes == {"BIT", "BYTE", "UBYTE", "SHORT", "USHORT", "INT", "FLOAT", "DOUBLE"}

mapped_data_types ==
    [code \in 0..7 |->
        CASE code = 0 -> "BIT"
          [] code = 1 -> "BYTE"
          [] code = 2 -> "UBYTE"
          [] code = 3 -> "SHORT"
          [] code = 4 -> "USHORT"
          [] code = 5 -> "INT"
          [] code = 6 -> "FLOAT"
          [] code = 7 -> "DOUBLE"]
\* a lookup that falls back to a default cell type (dict.get(code, 'DOUBLE'))
LookupDataType_default(code) ==
    IF code \in DOMAIN mapped_data_types THEN [name |-> mapped_data_types[code]]
    ELSE [name |-> "DOUBLE"]
\* _mapped_data_types[code]: KeyError for a code that is no key
LookupDataType(code) ==
    IF code \in DOMAIN mapped_data_types THEN [name |-> mapped_data_types[code]]
    ELSE Err("KeyError")

\* ProtoCellType.<NAME>
ProtoCellTypeCode(data_type) ==
    CASE data_type = "BIT" -> 0
      [] data_type = "BYTE" -> 1
      [] data_type = "UBYTE" -> 2
      [] data_type = "SHORT" -> 3
      [] data_type = "USHORT" -> 4
      [] data_type = "INT" -> 5
      [] data_type = "FLOAT" -> 6
      [] OTHER -> 7

\* which packed container a data type uses
Container(data_type) ==
    CASE data_type \in {"BIT", "UBYTE", "USHORT"} -> "uint32Cells"
      [] data_type \in {"BYTE", "SHORT", "INT"} -> "sint32Cells"
      [] data_type = "FLOAT" -> "floatCells"
      [] OTHER -> "doubleCells"

(***************************************************************************)
(* Wire messages (tileMessages_pb2).                                       *)
(***************************************************************************)
ProtoCellType(dataType, hasNoData, nd) ==
    [dataType |-> dataType, hasNoData |-> hasNoData, nd |-> nd]
\* a ProtoTile whose cells sit in one container
ProtoTileIn(container, rows, cols, cell_type, cells) ==
    [rows |-> rows, cols |-> cols, cellType |-> cell_type,
     uint32Cells |-> IF container = "uint32Cells" THEN cells ELSE <<>>,
     sint32Cells |-> IF container = "sint32Cells" THEN cells ELSE <<>>,
     floatCells |-> IF container = "floatCells" THEN cells ELSE <<>>,
     doubleCells |-> IF container = "doubleCells" THEN cells ELSE <<>>]
ProtoMultibandTile(tiles) == [tiles |-> tiles]

(***************************************************************************)
(* DECODERS: tiles.                                                        *)
(***************************************************************************)
\* from_pb_tile(tile, data_type); data_type "" stands for the default None
from_pb_tile(tile, data_type) ==
    LET dt == IF data_type = "" THEN LookupDataType(tile.cellType.dataType)
              ELSE [name |-> data_type]
    IN  IF IsErr(dt) THEN dt
        ELSE reshape(NarrowAll(dt.name, tile[Container(dt.name)]), tile.rows, tile.cols)

tile_decoder(proto_bytes) ==
    LET tile == proto_bytes
        dt == LookupDataType(tile.cellType.dataType)
    IN  IF IsErr(dt) THEN dt
        ELSE LET band == from_pb_tile(tile, dt.name)
             IN  IF IsErr(band) THEN band
                 ELSE IF tile.cellType.hasNoData
                 THEN [data |-> np_array(<<band>>),
                       no_data_value |-> Some(tile.cellType.nd),
                       data_type |-> dt.name]
                 ELSE [data |-> np_array(<<band>>), data_type |-> dt.name]

from_pb_multibandtile(multibandtile) ==
    IF multibandtile.tiles = <<>> THEN Err("IndexError")
    ELSE
    LET tiles == multibandtile.tiles
        dt == LookupDataType(tiles[1].cellType.dataType)
    IN  IF IsErr(dt) THEN dt
        ELSE LET list == [i \in 1..Len(tiles) |-> from_pb_tile(tiles[i], dt.name)]
             IN  IF \E i \in 1..Len(list) : IsErr(list[i])
                 THEN list[CHOOSE i \in 1..Len(list) :
                              IsErr(list[i]) /\ \A j \in 1..(i - 1) : ~IsErr(list[j])]
                 ELSE LET bands == np_array(list)
                      IN  IF IsErr(bands) THEN bands
                          ELSE IF tiles[1].cellType.hasNoData
                          THEN [data |-> bands,
                                no_data_value |-> Some(tiles[1].cellType.nd),
                                data_type |-> dt.name]
                          ELSE [data |-> bands, data_type |-> dt.name]

multibandtile_decoder(proto_bytes) == from_pb_multibandtile(proto_bytes)

(***************************************************************************)
(* ENCODERS: tiles.                                                        *)
(***************************************************************************)
to_pb_tile(o) ==
    LET arr == o.data
        data_type == o.data_type
        rows == IF Len(arr.shape) > 2 THEN arr.shape[2] ELSE arr.shape[1]
        cols == IF Len(arr.shape) > 2 THEN arr.shape[3] ELSE arr.shape[2]
        nd == DictGet(o, "no_data_value")
        cell_type == IF Truthy(nd)
                     THEN ProtoCellType(ProtoCellTypeCode(data_type), TRUE, TheVal(nd))
                     ELSE ProtoCellType(ProtoCellTypeCode(data_type), FALSE, 0)
        cells == flatten(arr)
    IN  IF Len(arr.shape) \notin {2, 3} THEN Err("ValueError")
        ELSE IF Container(data_type) = "uint32Cells"
                /\ \E i \in 1..Len(cells) : ~InUint32(cells[i])
        THEN Err("ValueError")
        ELSE ProtoTileIn(Container(data_type), rows, cols, cell_type, cells)

tile_encoder(o) == to_pb_tile(o)

\* the caller's dict after to_pb_multibandtile(obj): obj['data'] is
\* rebound to the expanded array when it had 2 dimensions
to_pb_multibandtile_obj(o) ==
    IF ndim(o.data) = 2 THEN [o EXCEPT !.data = expand_dims(o.data)] ELSE o

to_pb_multibandtile(o) ==
    LET o2 == to_pb_multibandtile_obj(o)
        band_count == o2.data.shape[1]
        create_dict(index) ==
            [data |-> band_slice(o2.data, index),
             no_data_value |-> o2.no_data_value,
             data_type |-> o2.data_type]
    IN  IF band_count > 0 /\ "no_data_value" \notin DOMAIN o2 THEN Err("KeyError")
        ELSE LET list == [x \in 1..band_count |-> to_pb_tile(create_dict(x - 1))]
             IN  IF \E i \in 1..Len(list) : IsErr(list[i])
                 THEN list[CHOOSE i \in 1..Len(list) :
                              IsErr(list[i]) /\ \A j \in 1..(i - 1) : ~IsErr(list[j])]
                 ELSE ProtoMultibandTile(list)

multibandtile_encoder(o) == to_pb_multibandtile(o)

(***************************************************************************)
(* Wire messages (extentMessages_pb2, keyMessages_pb2, tupleMessages_pb2). *)
(***************************************************************************)
ProtoExtent(xmin, ymin, xmax, ymax) ==
    [xmin |-> xmin, ymin |-> ymin, xmax |-> xmax, ymax |-> ymax]
ProtoCRS(epsg, proj4) == [epsg |-> epsg, proj4 |-> proj4]
ProtoProjectedExtent(extent, crs) == [extent |-> extent, crs |-> crs]
ProtoTemporalProjectedExtent(extent, crs, instant) ==
    [extent |-> extent, crs |-> crs, instant |-> instant]
ProtoSpatialKey(col, row) == [col |-> col, row |-> row]
ProtoSpaceTimeKey(col, row, instant) == [col |-> col, row |-> row, instant |-> instant]
\* a freshly constructed ProtoTuple: every slot holds its default message
\* `populated` is the set of key slots that were set (what HasField tells);
\* reading a slot that was not set gives the default message
ProtoTuple ==
    [populated |-> {},
     tiles |-> ProtoMultibandTile(<<>>),
     projectedExtent |-> ProtoProjectedExtent(ProtoExtent(0, 0, 0, 0), ProtoCRS(0, "")),
     temporalProjectedExtent |->
         ProtoTemporalProjectedExtent(ProtoExtent(0, 0, 0, 0), ProtoCRS(0, ""), 0),
     spatialKey |-> ProtoSpatialKey(0, 0),
     spaceTimeKey |-> ProtoSpaceTimeKey(0, 0, 0)]

(***************************************************************************)
(* Python value types (geopyspark.geotrellis).                             *)
(***************************************************************************)
Extent(xmin, ymin, xmax, ymax) ==
    [xmin |-> xmin, ymin |-> ymin, xmax |-> xmax, ymax |-> ymax]
\* ProjectedExtent.__new__(cls, extent, epsg=None, proj4=None)
ProjectedExtent(extent, epsg, proj4) ==
    [extent |-> extent, epsg |-> epsg, proj4 |-> proj4]
\* TemporalProjectedExtent.__new__(cls, extent, instant, epsg=None, proj4=None)
TemporalProjectedExtent(extent, instant, epsg, proj4) ==
    [extent |-> extent, instant |-> instant, epsg |-> epsg, proj4 |-> proj4]
SpatialKey(col, row) == [col |-> col, row |-> row]
SpaceTimeKey(col, row, instant) == [col |-> col, row |-> row, instant |-> instant]

(***************************************************************************)
(* DECODERS: extents and keys.                                             *)
(***************************************************************************)
\* an Extent built with two coordinates exchanged
from_pb_extent_swapped(pb_extent) ==
    Extent(pb_extent.xmin, pb_extent.ymin, pb_extent.ymax, pb_extent.xmax)
from_pb_extent(pb_extent) ==
    Extent(pb_extent.xmin, pb_extent.ymin, pb_extent.xmax, pb_extent.ymax)

extent_decoder(proto_bytes) == from_pb_extent(proto_bytes)

\* a decoder that hands both CRS fields of the message to the constructor
from_pb_projected_extent_both(pb_projected_extent) ==
    [extent |-> from_pb_extent(pb_projected_extent.extent),
     epsg |-> {pb_projected_extent.crs.epsg},
     proj4 |-> {pb_projected_extent.crs.proj4}]
\* "crs.epsg is not 0": CPython keeps one object per small int, so the
\* identity test on the int read from the message is the test epsg # 0
from_pb_projected_extent(pb_projected_extent) ==
    IF pb_projected_extent.crs.epsg # 0
    THEN ProjectedExtent(from_pb_extent(pb_projected_extent.extent),
                         Some(pb_projected_extent.crs.epsg), PyNone)
    ELSE ProjectedExtent(from_pb_extent(pb_projected_extent.extent),
                         PyNone, Some(pb_projected_extent.crs.proj4))

projected_extent_decoder(proto_bytes) == from_pb_projected_extent(proto_bytes)

\* a decoder that always reports the epsg field, 0 included
from_pb_temporal_projected_extent_epsg(pb_temporal_projected_extent) ==
    TemporalProjectedExtent(from_pb_extent(pb_temporal_projected_extent.extent),
                            pb_temporal_projected_extent.instant,
                            Some(pb_temporal_projected_extent.crs.epsg), PyNone)
from_pb_temporal_projected_extent(pb_temporal_projected_extent) ==
    IF pb_temporal_projected_extent.crs.epsg # 0
    THEN TemporalProjectedExtent(from_pb_extent(pb_temporal_projected_extent.extent),
                                 pb_temporal_projected_extent.instant,
                                 Some(pb_temporal_projected_extent.crs.epsg), PyNone)
    ELSE TemporalProjectedExtent(from_pb_extent(pb_temporal_projected_extent.extent),
                                 pb_temporal_projected_extent.instant,
                                 PyNone, Some(pb_temporal_projected_extent.crs.proj4))

temporal_projected_extent_decoder(proto_bytes) ==
    from_pb_temporal_projected_extent(proto_bytes)

from_pb_spatial_key(pb_spatial_key) == SpatialKey(pb_spatial_key.col, pb_spatial_key.row)

spatial_key_decoder(proto_bytes) == from_pb_spatial_key(proto_bytes)

from_pb_space_time_key(pb_space_time_key) ==
    SpaceTimeKey(pb_space_time_key.col, pb_space_time_key.row, pb_space_time_key.instant)

space_time_key_decoder(proto_bytes) == from_pb_space_time_key(proto_bytes)

tuple_decoder(proto_bytes, key_decoder) ==
    LET tup == proto_bytes
        multiband == from_pb_multibandtile(tup.tiles)
    IN  IF IsErr(multiband) THEN multiband
        ELSE IF key_decoder = "ProjectedExtent"
        THEN [key |-> from_pb_projected_extent(tup.projectedExtent), value |-> multiband]
        ELSE IF key_decoder = "TemporalProjectedExtent"
        THEN [key |-> from_pb_temporal_projected_extent(tup.temporalProjectedExtent),
              value |-> multiband]
        ELSE IF key_decoder = "SpatialKey"
        THEN [key |-> from_pb_spatial_key(tup.spatialKey), value |-> multiband]
        ELSE [key |-> from_pb_space_time_key(tup.spaceTimeKey), value |-> multiband]

(***************************************************************************)
(* ENCODERS: extents and keys.                                             *)
(***************************************************************************)
to_pb_extent(o) == ProtoExtent(o.xmin, o.ymin, o.xmax, o.ymax)

extent_encoder(o) == to_pb_extent(o)

\* the ProtoCRS both projected-extent encoders fill in: a string field
\* rejects None (TypeError)
to_pb_crs(o) ==
    IF Truthy(o.epsg) THEN ProtoCRS(TheVal(o.epsg), "")
    ELSE IF o.proj4 = PyNone THEN Err("TypeError")
    ELSE ProtoCRS(0, TheVal(o.proj4))

to_pb_projected_extent(o) ==
    LET ex == to_pb_extent(o.extent)
        crs == to_pb_crs(o)
    IN  IF IsErr(crs) THEN crs ELSE ProtoProjectedExtent(ex, crs)

projected_extent_encoder(o) == to_pb_projected_extent(o)

to_pb_temporal_projected_extent(o) ==
    LET ex == to_pb_extent(o.extent)
        crs == to_pb_crs(o)
    IN  IF IsErr(crs) THEN crs ELSE ProtoTemporalProjectedExtent(ex, crs, o.instant)

temporal_projected_extent_encoder(o) == to_pb_temporal_projected_extent(o)

to_pb_spatial_key(o) == ProtoSpatialKey(o.col, o.row)

spatial_key_encoder(o) == to_pb_spatial_key(o)

to_pb_space_time_key(o) == ProtoSpaceTimeKey(o.col, o.row, o.instant)

space_time_key_encoder(o) == to_pb_space_time_key(o)

\* "tup.spaceTimeKey = <message>": the protobuf runtime refuses to assign
\* to a message-typed field (AttributeError); the other slots use CopyFrom
AssignCompositeField(tup, field, value) == Err("AttributeError")

tuple_encoder(o, key_encoder) ==
    LET tiles == to_pb_multibandtile(o.value)
    IN  IF IsErr(tiles) THEN tiles
        ELSE LET tup == [ProtoTuple EXCEPT !.tiles = tiles]
                 k == IF key_encoder = "ProjectedExtent"
                      THEN to_pb_projected_extent(o.key)
                      ELSE IF key_encoder = "TemporalProjectedExtent"
                      THEN to_pb_temporal_projected_extent(o.key)
                      ELSE IF key_encoder = "SpatialKey"
                      THEN to_pb_spatial_key(o.key)
                      ELSE to_pb_space_time_key(o.key)
             IN  IF IsErr(k) THEN k
                 ELSE IF key_encoder = "ProjectedExtent"
                 THEN [tup EXCEPT !.projectedExtent = k,
                                  !.populated = {"projectedExtent"}]
                 ELSE IF key_encoder = "TemporalProjectedExtent"
                 THEN [tup EXCEPT !.temporalProjectedExtent = k,
                                  !.populated = {"temporalProjectedExtent"}]
                 ELSE IF key_encoder = "SpatialKey"
                 THEN [tup EXCEPT !.spatialKey = k, !.populated = {"spatialKey"}]
                 ELSE AssignCompositeField(tup, "spaceTimeKey", k)

\* the caller's tuple after tuple_encoder: its value dict went through
\* to_pb_multibandtile
tuple_encoder_obj(o) == [o EXCEPT !.value = to_pb_multibandtile_obj(o.value)]

(***************************************************************************)
(* Codec lookup by schema name.  A codec is named by its function name.    *)
(***************************************************************************)
\* a lookup whose last branch returns a codec instead of raising
get_decoder_default(name) ==
    IF name = "Tile" THEN [fn |-> "tile_decoder"]
    ELSE IF name = "MultibandTile" THEN [fn |-> "multibandtile_decoder"]
    ELSE IF name = "ProjectedExtent" THEN [fn |-> "projected_extent_decoder"]
    ELSE IF name = "TemporalProjectedExtent" THEN [fn |-> "temporal_projected_extent_decoder"]
    ELSE IF name = "SpatialKey" THEN [fn |-> "spatial_key_decoder"]
    ELSE [fn |-> "space_time_key_decoder"]
get_decoder(name) ==
    IF name = "Tile" THEN [fn |-> "tile_decoder"]
    ELSE IF name = "MultibandTile" THEN [fn |-> "multibandtile_decoder"]
    ELSE IF name = "ProjectedExtent" THEN [fn |-> "projected_extent_decoder"]
    ELSE IF name = "TemporalProjectedExtent" THEN [fn |-> "temporal_projected_extent_decoder"]
    ELSE IF name = "SpatialKey" THEN [fn |-> "spatial_key_decoder"]
    ELSE IF name = "SpaceTimeKey" THEN [fn |-> "space_time_key_decoder"]
    ELSE Err("Exception")

get_encoder(name) ==
    IF name = "Tile" THEN [fn |-> "tile_encoder"]
    ELSE IF name = "MultibandTile" THEN [fn |-> "multibandtile_encoder"]
    ELSE IF name = "ProjectedExtent" THEN [fn |-> "projected_extent_encoder"]
    ELSE IF name = "TemporalProjectedExtent" THEN [fn |-> "temporal_projected_extent_encoder"]
    ELSE IF name = "SpatialKey" THEN [fn |-> "spatial_key_encoder"]
    ELSE IF name = "SpaceTimeKey" THEN [fn |-> "space_time_key_encoder"]
    ELSE Err("Exception")

\* calling the function a lookup returned
CallDecoder(fn, proto_bytes) ==
    CASE fn = "tile_decoder" -> tile_decoder(proto_bytes)
      [] fn = "multibandtile_decoder" -> multibandtile_decoder(proto_bytes)
      [] fn = "projected_extent_decoder" -> projected_extent_decoder(proto_bytes)
      [] fn = "temporal_projected_extent_decoder" ->
             temporal_projected_extent_decoder(proto_bytes)
      [] fn = "spatial_key_decoder" -> spatial_key_decoder(proto_bytes)
      [] fn = "space_time_key_decoder" -> space_time_key_decoder(proto_bytes)

CallEncoder(fn, o) ==
    CASE fn = "tile_encoder" -> tile_encoder(o)
      [] fn = "multibandtile_encoder" -> multibandtile_encoder(o)
      [] fn = "projected_extent_encoder" -> projected_extent_encoder(o)
      [] fn = "temporal_projected_extent_encoder" -> temporal_projected_extent_encoder(o)
      [] fn = "spatial_key_encoder" -> spatial_key_encoder(o)
      [] fn = "space_time_key_encoder" -> space_time_key_encoder(o)

\* the caller's object after the encoder returned or raised
ObjAfterEncoder(fn, o) ==
    IF fn = "multibandtile_encoder" THEN to_pb_multibandtile_obj(o) ELSE o

(***************************************************************************)
(* Inputs: the Python values handed to the encoders.                       *)
(***************************************************************************)
\* two representative in-range cell values of each cell type
CellSamples(data_type) ==
    CASE data_type = "BIT" -> <<0, 1>>
      [] data_type = "BYTE" -> <<-128, 1>>
      [] data_type = "UBYTE" -> <<0, 255>>
      [] data_type = "SHORT" -> <<-32768, 1>>
      [] data_type = "USHORT" -> <<0, 65535>>
      [] data_type = "INT" -> <<-70000, 1>>
      [] data_type = "FLOAT" -> <<-2, 3>>
      [] OTHER -> <<-4, 5>>
CellValues(data_type) == {CellSamples(data_type)[1], CellSamples(data_type)[2]}
\* a nonzero no-data sentinel of each cell type
NdSample(data_type) == IF data_type = "BIT" THEN 1 ELSE CellSamples(data_type)[1] + 1

Shapes == {s \in (1..MaxCells) \X (1..MaxCells) : s[1] * s[2] <= MaxCells}
\* all cell buffers of n cells of a cell type
CellBuffers(data_type, n) == [1..n -> CellValues(data_type)]
Array(shape, cells) == [shape |-> shape, cells |-> cells]
\* how a raster dict states its no-data value
NdForms == {"missing", "None", "zero", "sentinel"}
RasterDict(a, data_type, form) ==
    CASE form = "missing" -> [data |-> a, data_type |-> data_type]
      [] form = "None" -> [data |-> a, no_data_value |-> PyNone, data_type |-> data_type]
      [] form = "zero" -> [data |-> a, no_data_value |-> Some(0), data_type |-> data_type]
      [] OTHER -> [data |-> a, no_data_value |-> Some(NdSample(data_type)),
                   data_type |-> data_type]
\* the shape of an array of `bands` bands; 0 bands stands for a
\* 2-dimensional (rows, cols) array
ArrayShape(bands, s) == IF bands = 0 THEN s ELSE <<bands>> \o s
ArraySize(bands, s) == (IF bands = 0 THEN 1 ELSE bands) * s[1] * s[2]
\* the values paired with keys in tuples: one band of one cell
PyTupleValues ==
    {RasterDict(Array(<<1, 1, 1>>, <<CellSamples(dt)[1]>>), dt, form)
        : dt \in {"BYTE", "USHORT", "DOUBLE"}, form \in NdForms}

Extents == {Extent(0, 0, 1, 1), Extent(-1, 2, 3, 4)}
EpsgChoices == {PyNone, Some(0), Some(4326)}
Proj4Choices == {PyNone, Some(""), Some("+proj=longlat")}
Instants == {0, 5}
GridCoords == {0, 7}

PyProjectedExtents ==
    {ProjectedExtent(e, epsg, proj4)
        : e \in Extents, epsg \in EpsgChoices, proj4 \in Proj4Choices}
PyTemporalProjectedExtents ==
    {TemporalProjectedExtent(e, i, epsg, proj4)
        : e \in Extents, i \in Instants, epsg \in EpsgChoices, proj4 \in Proj4Choices}
PySpatialKeys == {SpatialKey(c, r) : c \in GridCoords, r \in GridCoords}
PySpaceTimeKeys == {SpaceTimeKey(c, r, i) : c \in GridCoords, r \in GridCoords, i \in Instants}

ValueNames == {"Tile", "MultibandTile"}
KeyKinds == {"ProjectedExtent", "TemporalProjectedExtent", "SpatialKey", "SpaceTimeKey"}
KnownNames == ValueNames \cup KeyKinds
\* names no lookup knows
UnknownNames == {"NotARealType", "Extent"}
SchemaNames == KnownNames \cup UnknownNames

PyKeys(kind) ==
    CASE kind = "ProjectedExtent" -> PyProjectedExtents
      [] kind = "TemporalProjectedExtent" -> PyTemporalProjectedExtents
      [] kind = "SpatialKey" -> PySpatialKeys
      [] OTHER -> PySpaceTimeKeys
\* the stand-alone keys; a lookup of an unknown name is tried with a key
PyValues(name) == PyKeys(name)

(***************************************************************************)
(* Inputs: the wire messages received from the backend.                    *)
(***************************************************************************)
\* 8 is a discriminant no cell type has
WireCodes == 0..8
\* the cells of a tile of unknown discriminant sit in the double container
WireDataType(code) == IF code \in 0..7 THEN mapped_data_types[code] ELSE "DOUBLE"
WireCellTypes ==
    UNION {{ProtoCellType(code, FALSE, 0), ProtoCellType(code, TRUE, 0),
            ProtoCellType(code, TRUE, NdSample(WireDataType(code)))} : code \in WireCodes}
\* n cells alternating between the two samples of the type, from sample k
WireCells(data_type, n, k) ==
    [i \in 1..n |-> CellSamples(data_type)[((i + k) % 2) + 1]]
\* band number k of a wire multiband: `extra` cells more (or fewer) than
\* rows*cols, in the container of the band's declared cell type
WireBand(cell_type, s, k, extra) ==
    LET dt == WireDataType(cell_type.dataType)
    IN  ProtoTileIn(Container(dt), s[1], s[2], cell_type,
                    WireCells(dt, s[1] * s[2] + extra, k))

\* band 0 declares ct0, every later band declares ct1; only the last band
\* may hold a wrong number of cells
WireMultibandsOf(n, ct0, ct1, s, extra) ==
    ProtoMultibandTile([k \in 1..n |->
        WireBand(IF k = 1 THEN ct0 ELSE ct1, s, k, IF k = n THEN extra ELSE 0)])
CellCountErrors == {-1, 0, 1}
\* what the backend sends: every band well-formed, one cell type throughout
WellFormedTile(w) ==
    /\ w.cellType.dataType \in 0..7
    /\ Len(w[Container(mapped_data_types[w.cellType.dataType])]) = w.rows * w.cols
WellFormedMultiband(w) ==
    /\ w.tiles # <<>>
    /\ \A i \in 1..Len(w.tiles) :
          WellFormedTile(w.tiles[i]) /\ w.tiles[i].cellType = w.tiles[1].cellType

WireCRSs == {ProtoCRS(e, p) : e \in {0, 4326}, p \in {"", "+proj=longlat"}}
WireExtents == {ProtoExtent(0, 0, 1, 1), ProtoExtent(-1, 2, 3, 4)}
WireProjectedExtents ==
    {ProtoProjectedExtent(e, crs) : e \in WireExtents, crs \in WireCRSs}
WireTemporalProjectedExtents ==
    {ProtoTemporalProjectedExtent(e, crs, i)
        : e \in WireExtents, crs \in WireCRSs, i \in Instants}
WireSpatialKeys == {ProtoSpatialKey(c, r) : c \in GridCoords, r \in GridCoords}
WireSpaceTimeKeys ==
    {ProtoSpaceTimeKey(c, r, i) : c \in GridCoords, r \in GridCoords, i \in Instants}

WireKeys(kind) ==
    CASE kind = "ProjectedExtent" -> WireProjectedExtents
      [] kind = "TemporalProjectedExtent" -> WireTemporalProjectedExtents
      [] kind = "SpatialKey" -> WireSpatialKeys
      [] OTHER -> WireSpaceTimeKeys
\* the stand-alone keys; a lookup of an unknown name is tried with a key
WireValues(name) == WireKeys(name)
\* a ProtoTuple with the slot of `kind` populated
WireTupleOf(kind, k, tiles) ==
    CASE kind = "ProjectedExtent" ->
             [ProtoTuple EXCEPT !.tiles = tiles, !.projectedExtent = k,
                                !.populated = {"projectedExtent"}]
      [] kind = "TemporalProjectedExtent" ->
             [ProtoTuple EXCEPT !.tiles = tiles, !.temporalProjectedExtent = k,
                                !.populated = {"temporalProjectedExtent"}]
      [] kind = "SpatialKey" ->
             [ProtoTuple EXCEPT !.tiles = tiles, !.spatialKey = k,
                                !.populated = {"spatialKey"}]
      [] OTHER ->
             [ProtoTuple EXCEPT !.tiles = tiles, !.spaceTimeKey = k,
                                !.populated = {"spaceTimeKey"}]
WireTupleValues ==
    {WireMultibandsOf(1, ct, ct, <<1, 1>>, 0)
        : ct \in {ProtoCellType(1, TRUE, -127), ProtoCellType(4, FALSE, 0)}}
WireTuples ==
    UNION {{WireTupleOf(kind, k, tiles) : k \in WireKeys(kind), tiles \in WireTupleValues}
           : kind \in KeyKinds}
\* the key kinds a caller may name, one of them unknown
TupleKinds == KeyKinds \cup {"NotAKeyKind"}

(***************************************************************************)
(* The codec boundary as a state machine: a value is encoded by the host   *)
(* or received from the backend, decoded, encoded again, and dropped.      *)
(***************************************************************************)
Nil == [nil |-> TRUE]
IsNil(x) == "nil" \in DOMAIN x

InitCodec ==
    /\ pc = "idle"
    /\ schema = ""
    /\ tupled = FALSE
    /\ arg = Nil
    /\ obj = Nil
    /\ msg = Nil
    /\ res = Nil
    /\ msg2 = Nil

\* encode(record, schemaName): _get_encoder(name)(x)
EncodeWith(name, x) ==
    LET enc == get_encoder(name)
    IN  IF IsErr(enc) THEN enc ELSE CallEncoder(enc.fn, x)
EncodeObjAfter(name, x) ==
    LET enc == get_encoder(name)
    IN  IF IsErr(enc) THEN x ELSE ObjAfterEncoder(enc.fn, x)
\* decode(bytes, schemaName): _get_decoder(name)(bytes)
DecodeWith(name, bytes) ==
    LET dec == get_decoder(name)
    IN  IF IsErr(dec) THEN dec ELSE CallDecoder(dec.fn, bytes)

EncodeValue(name, x) ==
    /\ pc = "idle"
    /\ pc' = "encoded"
    /\ schema' = name
    /\ tupled' = FALSE
    /\ arg' = x
    /\ obj' = EncodeObjAfter(name, x)
    /\ msg' = EncodeWith(name, x)
    /\ UNCHANGED <<res, msg2>>
    /\ UNCHANGED <<chanVars, rddVars, metaVars, cacheVars>>

\* create_partial_tuple_encoder(kind)((key, value))
EncodeTuple(kind, k, v) ==
    /\ pc = "idle"
    /\ pc' = "encoded"
    /\ schema' = kind
    /\ tupled' = TRUE
    /\ arg' = [key |-> k, value |-> v]
    /\ obj' = tuple_encoder_obj([key |-> k, value |-> v])
    /\ msg' = tuple_encoder([key |-> k, value |-> v], kind)
    /\ UNCHANGED <<res, msg2>>
    /\ UNCHANGED <<chanVars, rddVars, metaVars, cacheVars>>

ReceiveValue(name, w) ==
    /\ pc = "idle"
    /\ pc' = "received"
    /\ schema' = name
    /\ tupled' = FALSE
    /\ msg' = w
    /\ UNCHANGED <<arg, obj, res, msg2>>
    /\ UNCHANGED <<chanVars, rddVars, metaVars, cacheVars>>

ReceiveTuple(kind, w) ==
    /\ pc = "idle"
    /\ pc' = "received"
    /\ schema' = kind
    /\ tupled' = TRUE
    /\ msg' = w
    /\ UNCHANGED <<arg, obj, res, msg2>>
    /\ UNCHANGED <<chanVars, rddVars, metaVars, cacheVars>>

\* the bytes an encoder produced, or the backend sent, are decoded
Decode ==
    /\ pc \in {"encoded", "received"}
    /\ ~IsErr(msg)
    /\ pc' = "decoded"
    /\ res' = IF tupled THEN tuple_decoder(msg, schema) ELSE DecodeWith(schema, msg)
    /\ UNCHANGED <<schema, tupled, arg, obj, msg, msg2>>
    /\ UNCHANGED <<chanVars, rddVars, metaVars, cacheVars>>

\* the decoded value is encoded again
ReEncode ==
    /\ pc = "decoded"
    /\ ~IsErr(res)
    /\ pc' = "reencoded"
    /\ msg2' = IF tupled THEN tuple_encoder(res, schema) ELSE EncodeWith(schema, res)
    /\ res' = IF tupled THEN tuple_encoder_obj(res) ELSE EncodeObjAfter(schema, res)
    /\ UNCHANGED <<schema, tupled, arg, obj, msg>>
    /\ UNCHANGED <<chanVars, rddVars, metaVars, cacheVars>>

Reset ==
    /\ pc # "idle"
    /\ pc' = "idle"
    /\ schema' = ""
    /\ tupled' = FALSE
    /\ arg' = Nil
    /\ obj' = Nil
    /\ msg' = Nil
    /\ res' = Nil
    /\ msg2' = Nil
    /\ UNCHANGED <<chanVars, rddVars, metaVars, cacheVars>>

\* the quantified inputs are drawn only where an action can start
Next ==
    \/ /\ pc = "idle"
       /\ \E dt \in DataTypes : \E s \in Shapes : \E bands \in 0..MaxBands :
          \E cells \in CellBuffers(dt, ArraySize(bands, s)) : \E form \in NdForms :
             EncodeValue("Tile", RasterDict(Array(ArrayShape(bands, s), cells), dt, form))
    \/ /\ pc = "idle"
       /\ \E dt \in DataTypes : \E s \in Shapes : \E bands \in 0..MaxBands :
          \E cells \in CellBuffers(dt, ArraySize(bands, s)) : \E form \in NdForms :
             EncodeValue("MultibandTile",
                         RasterDict(Array(ArrayShape(bands, s), cells), dt, form))
    \/ /\ pc = "idle"
       /\ \E name \in KeyKinds \cup UnknownNames : \E x \in PyValues(name) :
             EncodeValue(name, x)
    \/ /\ pc = "idle"
       /\ \E kind \in TupleKinds : \E k \in PyKeys(kind) : \E v \in PyTupleValues :
             EncodeTuple(kind, k, v)
    \/ /\ pc = "idle"
       /\ \E ct \in WireCellTypes : \E s \in Shapes : \E extra \in CellCountErrors :
             ReceiveValue("Tile", WireBand(ct, s, 1, extra))
    \/ /\ pc = "idle"
       /\ \E n \in 1..MaxBands : \E ct0 \in WireCellTypes :
          \E ct1 \in (IF n = 1 THEN {ct0} ELSE WireCellTypes) :
          \E s \in Shapes : \E extra \in CellCountErrors :
             ReceiveValue("MultibandTile", WireMultibandsOf(n, ct0, ct1, s, extra))
    \/ /\ pc = "idle"
       /\ \E name \in KeyKinds \cup UnknownNames : \E w \in WireValues(name) :
             ReceiveValue(name, w)
    \/ /\ pc = "idle"
       /\ \E kind \in TupleKinds : \E w \in WireTuples : ReceiveTuple(kind, w)
    \/ Decode
    \/ ReEncode
    \/ Reset

(***************************************************************************)
(* The framed channel read through AvroSerializer.                         *)
(***************************************************************************)
\* schema names listed in serialization_constants.COLLECTIONS
COLLECTIONS == {"ArrayMultibandTile"}
ChannelSchemas == {"SpaceTimeKey", "ArrayMultibandTile"}
\* the records written onto a channel of each schema
ChannelRecords(name) ==
    IF name \in COLLECTIONS
    THEN {[items |-> <<SpatialKey(7, 3)>>], [items |-> <<SpatialKey(7, 3), SpatialKey(9, 4)>>],
          [items |-> <<>>]}
    ELSE {SpaceTimeKey(7, 3, 5), SpaceTimeKey(9, 4, 10), SpaceTimeKey(11, 5, 15)}

\* get_encoded_object(obj, ...): the Avro datum of a record
get_encoded_object(o) == [datum |-> o]
\* DatumWriter.write / DatumReader.read: the bytes of a datum and back
AvroWrite(datum, schema_json) == [avro |-> datum, writer_schema |-> schema_json]
AvroRead(bytes) == bytes.avro
\* the function get_decoder(name=..., ...) returns, applied to a datum
channel_decoder(i) == i.datum
\* the same for a collection schema: decoder(i, schema_dict)
channel_collection_decoder(i, schema_dict) == i.datum

\* AvroSerializer.__init__(schema_json): schema_json is named by its schema
AvroSerializer(name) == [schema_json |-> name]
schema_name(self) == self.schema_json
schema_dict(self) == self.schema_json

dumps(self, o, schema_json) == AvroWrite(get_encoded_object(o), schema_json)

\* a loads that returns the decoded collection itself instead of [result]
loads_unwrapped(self, o) ==
    LET i == AvroRead(o)
    IN  IF schema_name(self) \in COLLECTIONS
        THEN channel_collection_decoder(i, schema_dict(self)).items
        ELSE <<channel_decoder(i)>>
loads(self, o) ==
    LET i == AvroRead(o)
        result == IF schema_name(self) \in COLLECTIONS
                  THEN channel_collection_decoder(i, schema_dict(self))
                  ELSE channel_decoder(i)
    IN  <<result>>

InitChannel ==
    /\ serializer = Nil
    /\ stream = <<>>
    /\ written = <<>>
    /\ collected = <<>>

\* no wrapper of a backend layer has been constructed
InitRdd ==
    /\ layer = Nil
    /\ op = [name |-> "none"]
    /\ backend = <<>>
    /\ outcome = Nil

\* the Metadata class has no _metadata_dict attribute and no instance exists
InitMetadata ==
    /\ class_metadata_dict = PyNone
    /\ instances = <<>>
    /\ returned = Nil

\* no cachable wrapper has been constructed
InitCache ==
    /\ cachable = Nil
    /\ persisted = <<>>
    /\ cachecall = [name |-> "none"]

Init == InitCodec /\ InitChannel /\ InitRdd /\ InitMetadata /\ InitCache

\* a serializer is constructed for a schema and a channel opened with it
OpenChannel(name) ==
    /\ IsNil(serializer)
    /\ serializer' = AvroSerializer(name)
    /\ UNCHANGED <<stream, written, collected>>
    /\ UNCHANGED <<codecVars, rddVars, metaVars, cacheVars>>

\* one record is written as one frame
WriteFrame(r) ==
    /\ ~IsNil(serializer)
    /\ Len(written) < MaxFrames
    /\ stream' = Append(stream, dumps(serializer, r, serializer.schema_json))
    /\ written' = Append(written, r)
    /\ UNCHANGED <<serializer, collected>>
    /\ UNCHANGED <<codecVars, rddVars, metaVars, cacheVars>>

\* FramedSerializer.load_stream takes the next frame and passes it to
\* loads; the batched serializer chains the lists loads returns
ReadFrame ==
    /\ ~IsNil(serializer)
    /\ stream # <<>>
    /\ collected' = collected \o loads(serializer, Head(stream))
    /\ stream' = Tail(stream)
    /\ UNCHANGED <<serializer, written>>
    /\ UNCHANGED <<codecVars, rddVars, metaVars, cacheVars>>

\* the channel is closed once it is drained
CloseChannel ==
    /\ ~IsNil(serializer)
    /\ stream = <<>>
    /\ written # <<>>
    /\ serializer' = Nil
    /\ stream' = <<>>
    /\ written' = <<>>
    /\ collected' = <<>>
    /\ UNCHANGED <<codecVars, rddVars, metaVars, cacheVars>>

NextChannel ==
    \/ \E name \in ChannelSchemas : OpenChannel(name)
    \/ /\ ~IsNil(serializer)
       /\ \E r \in ChannelRecords(schema_name(serializer)) : WriteFrame(r)
    \/ ReadFrame
    \/ CloseChannel

Spec == Init /\ [][Next]_vars
SpecChannel == Init /\ [][NextChannel]_vars

(***************************************************************************)
(* geopyspark.geotrellis.rdd: the wrappers of the backend's layers.        *)
(*                                                                         *)
(* A wrapper is the record of what it was constructed with and of what its *)
(* backend layer (srdd) answers to layerMetadata() and getZoom().  A       *)
(* method is an operator giving the backend calls it made, in order, and   *)
(* what it returned or raised.  A Python number is [int |-> n] or          *)
(* [float |-> d], d the decimal string of the float ("1.0"),              *)
(* float('nan') is [nan |-> TRUE], a str is [str |-> s], a                 *)
(* tuple is [tuple |-> <<...>>], a dict made by _asdict() is               *)
(* [dict |-> fields]; a constant imported from                             *)
(* geopyspark.geotrellis.constants is the string of its name.              *)
(***************************************************************************)
SPATIAL == "SPATIAL"
SPACETIME == "SPACETIME"
NEARESTNEIGHBOR == "NEARESTNEIGHBOR"
RESAMPLE_METHODS ==
    {"NEARESTNEIGHBOR", "BILINEAR", "CUBICCONVOLUTION", "LANCZOS", "AVERAGE",
     "MODE", "MEDIAN", "MAX", "MIN"}
SLOPE == "SLOPE"
ASPECT == "ASPECT"
OPERATIONS ==
    {"SUM", "MIN", "MAX", "MEAN", "MEDIAN", "MODE", "STANDARDDEVIATION", "ASPECT", "SLOPE"}
SQUARE == "SQUARE"
NEIGHBORHOODS == {"ANNULUS", "NEWS", "SQUARE", "WEDGE", "CIRCLE"}
FLOAT == "FLOAT"
LESSTHANOREQUALTO == "LESSTHANOREQUALTO"

PyInt(n) == [int |-> n]
PyFloat(n) == [float |-> n]
PyStr(s) == [str |-> s]
PyTuple(t) == [tuple |-> t]
NaN == [nan |-> TRUE]
\* the no-data value of an int raster in the backend
NODATAINT == PyInt(-2147483647 - 1)

isinstance(v, t) == t \in DOMAIN v
\* truthiness of an optional value: None, 0, 0.0 and "" are falsy; nan, a
\* namedtuple with fields, a non-empty dict and a plain object are truthy
PyTruthy(o) ==
    /\ o # PyNone
    /\ LET v == TheVal(o)
       IN  CASE isinstance(v, "int") -> v.int # 0
             [] isinstance(v, "float") -> v.float # "0.0"
             [] isinstance(v, "str") -> v.str # ""
             [] OTHER -> TRUE
\* float(x) of an int or a float
float(v) ==
    IF isinstance(v, "int")
    THEN CASE v.int = 0 -> PyFloat("0.0")
           [] v.int = 1 -> PyFloat("1.0")
           [] v.int = 2 -> PyFloat("2.0")
    ELSE v
\* str(n) of the ints used as coordinate reference systems
str(n) ==
    CASE n = 0 -> "0"
      [] n = 256 -> "256"
      [] n = 3857 -> "3857"
      [] n = 4326 -> "4326"
\* namedtuple._asdict()
asdict(t) == [dict |-> t]

RECURSIVE BitAnd(_, _)
\* a & b of Python ints, a >= 0 and b >= -1
BitAnd(a, b) ==
    IF b = -1 THEN a
    ELSE IF a = 0 \/ b = 0 THEN 0
    ELSE (a % 2) * (b % 2) + 2 * BitAnd(a \div 2, b \div 2)

\* a call of a method of srdd, the backend layer
Call(fn, args) == [fn |-> fn, args |-> args]
\* what a method did: the backend calls it made, and its result
Ret(calls, out) == [calls |-> calls, out |-> out]
Raise(calls, cls, message) == Ret(calls, [err |-> cls, msg |-> message])

TileLayout(layoutCols, layoutRows, tileCols, tileRows) ==
    [layoutCols |-> layoutCols, layoutRows |-> layoutRows,
     tileCols |-> tileCols, tileRows |-> tileRows]
Bounds(minKey, maxKey) == [minKey |-> minKey, maxKey |-> maxKey]

\* RasterRDD(pysc, rdd_type, srdd)
RasterRDD(rdd_type) == [cls |-> "RasterRDD", rdd_type |-> rdd_type]
\* TiledRasterRDD(pysc, rdd_type, srdd); bounds and tile_layout are those of
\* srdd.layerMetadata(), zoom is srdd.getZoom()
\* floating is what srdd.isFloatingPointLayer() answers
TiledRasterRDD(rdd_type, bounds, tile_layout, zoom, floating) ==
    [cls |-> "TiledRasterRDD", rdd_type |-> rdd_type,
     bounds |-> bounds, tile_layout |-> tile_layout, zoom |-> zoom,
     floating |-> floating]

\* the property layer_metadata: one backend call at each access
layer_metadata == Call("layerMetadata", <<>>)
\* the property zoom_level: one backend call at each access
zoom_level == Call("getZoom", <<>>)

\* a lookup whose upper bounds are exclusive
lookup_exclusive(self, col, row, array_of_tiles) ==
    IF self.rdd_type # SPATIAL
    THEN Raise(<<>>, "ValueError",
               "Only TiledRasterRDDs with a rdd_type of Spatial can use lookup()")
    ELSE IF col < self.bounds.minKey.col \/ col >= self.bounds.maxKey.col
    THEN Raise(<<layer_metadata>>, "IndexError", "column out of bounds")
    ELSE IF row < self.bounds.minKey.row \/ row >= self.bounds.maxKey.row
    THEN Raise(<<layer_metadata>>, "IndexError", "row out of bounds")
    ELSE Ret(<<layer_metadata, Call("lookup", <<col, row>>)>>,
             [ok |-> [i \in 1..Len(array_of_tiles) |->
                         multibandtile_decoder(array_of_tiles[i])]])
\* TiledRasterRDD.lookup; array_of_tiles is what srdd.lookup returns
lookup(self, col, row, array_of_tiles) ==
    IF self.rdd_type # SPATIAL
    THEN Raise(<<>>, "ValueError",
               "Only TiledRasterRDDs with a rdd_type of Spatial can use lookup()")
    ELSE LET bounds == self.bounds
             min_col == bounds.minKey.col
             min_row == bounds.minKey.row
             max_col == bounds.maxKey.col
             max_row == bounds.maxKey.row
         IN  IF col < min_col \/ col > max_col
             THEN Raise(<<layer_metadata>>, "IndexError", "column out of bounds")
             ELSE IF row < min_row \/ row > max_row
             THEN Raise(<<layer_metadata>>, "IndexError", "row out of bounds")
             ELSE LET decoded == [i \in 1..Len(array_of_tiles) |->
                                     multibandtile_decoder(array_of_tiles[i])]
                      calls == <<layer_metadata, Call("lookup", <<col, row>>)>>
                  IN  IF \E i \in 1..Len(decoded) : IsErr(decoded[i])
                      THEN Ret(calls, decoded[CHOOSE i \in 1..Len(decoded) :
                                                 IsErr(decoded[i])])
                      ELSE Ret(calls, [ok |-> decoded])

\* a pyramid that does not test the tile dimensions
pyramid_unchecked(self, end_zoom, start_zoom, resample_method) ==
    IF resample_method \notin RESAMPLE_METHODS
    THEN Raise(<<>>, "ValueError", "Is not a known resample method.")
    ELSE IF Truthy(start_zoom)
    THEN Ret(<<layer_metadata, layer_metadata,
               Call("pyramid", <<TheVal(start_zoom), end_zoom, resample_method>>)>>,
             [ok |-> "Pyramid"])
    ELSE IF Truthy(self.zoom)
    THEN Ret(<<layer_metadata, layer_metadata, zoom_level, zoom_level,
               Call("pyramid", <<TheVal(self.zoom), end_zoom, resample_method>>)>>,
             [ok |-> "Pyramid"])
    ELSE Raise(<<layer_metadata, layer_metadata, zoom_level>>,
               "ValueError", "No start_zoom given.")
\* TiledRasterRDD.pyramid
pyramid(self, end_zoom, start_zoom, resample_method) ==
    IF resample_method \notin RESAMPLE_METHODS
    THEN Raise(<<>>, "ValueError", "Is not a known resample method.")
    ELSE LET num_cols == self.tile_layout.tileCols
             num_rows == self.tile_layout.tileRows
             calls == <<layer_metadata, layer_metadata>>
         IN  IF BitAnd(num_cols, num_cols - 1) # 0 \/ BitAnd(num_rows, num_rows - 1) # 0
             THEN Raise(calls, "ValueError",
                        "Tiles must have a col and row count that is a power of 2")
             ELSE IF Truthy(start_zoom)
             THEN Ret(calls \o <<Call("pyramid",
                                      <<TheVal(start_zoom), end_zoom, resample_method>>)>>,
                      [ok |-> "Pyramid"])
             ELSE IF Truthy(self.zoom)
             THEN Ret(calls \o <<zoom_level, zoom_level,
                                 Call("pyramid",
                                      <<TheVal(self.zoom), end_zoom, resample_method>>)>>,
                      [ok |-> "Pyramid"])
             ELSE Raise(calls \o <<zoom_level>>, "ValueError", "No start_zoom given.")

\* "x = x._asdict()" when x is given and is not a dict
to_dict_arg(x) ==
    IF PyTruthy(x) /\ ~isinstance(TheVal(x), "dict") THEN Some(asdict(TheVal(x))) ELSE x

\* RasterRDD.collect_metadata
collect_metadata(self, extent, layout, crs, tile_size) ==
    LET extent1 == to_dict_arg(extent)
        layout1 == to_dict_arg(layout)
        crs1 == IF ~PyTruthy(crs) THEN PyStr("") ELSE TheVal(crs)
        crs2 == IF isinstance(crs1, "int") THEN PyStr(str(crs1.int)) ELSE crs1
    IN  IF PyTruthy(extent1) /\ PyTruthy(layout1)
        THEN Ret(<<Call("collectMetadata", <<TheVal(extent1), TheVal(layout1), crs2>>)>>,
                 [ok |-> "Metadata"])
        ELSE IF ~PyTruthy(extent1) /\ ~PyTruthy(layout1)
        THEN Ret(<<Call("collectMetadata", <<PyStr(str(tile_size)), crs2>>)>>,
                 [ok |-> "Metadata"])
        ELSE Raise(<<>>, "TypeError", "Could not collect metadata")

\* a reproject that falls back to the tile-size form instead of raising
reproject_either(self, target_crs, extent, layout, scheme, tile_size, resolution_threshold, resample_method) ==
    IF resample_method \notin RESAMPLE_METHODS
    THEN Raise(<<>>, "ValueError", "Is not a known resample method.")
    ELSE LET extent1 == to_dict_arg(extent)
             layout1 == to_dict_arg(layout)
             target == IF isinstance(target_crs, "int")
                       THEN PyStr(str(target_crs.int)) ELSE target_crs
         IN  IF PyTruthy(extent1) /\ PyTruthy(layout1)
             THEN Ret(<<Call("reproject", <<TheVal(extent1), TheVal(layout1),
                                            target, resample_method>>)>>,
                      [ok |-> "TiledRasterRDD"])
             ELSE Ret(<<Call("reproject", <<scheme, tile_size, resolution_threshold,
                                            target, resample_method>>)>>,
                      [ok |-> "TiledRasterRDD"])
\* TiledRasterRDD.reproject
reproject(self, target_crs, extent, layout, scheme, tile_size, resolution_threshold, resample_method) ==
    IF resample_method \notin RESAMPLE_METHODS
    THEN Raise(<<>>, "ValueError", "Is not a known resample method.")
    ELSE LET extent1 == to_dict_arg(extent)
             layout1 == to_dict_arg(layout)
             target == IF isinstance(target_crs, "int")
                       THEN PyStr(str(target_crs.int)) ELSE target_crs
         IN  IF PyTruthy(extent1) /\ PyTruthy(layout1)
             THEN Ret(<<Call("reproject", <<TheVal(extent1), TheVal(layout1),
                                            target, resample_method>>)>>,
                      [ok |-> "TiledRasterRDD"])
             ELSE IF ~PyTruthy(extent1) /\ ~PyTruthy(layout1)
             THEN Ret(<<Call("reproject", <<scheme, tile_size, resolution_threshold,
                                            target, resample_method>>)>>,
                      [ok |-> "TiledRasterRDD"])
             ELSE Raise(<<>>, "TypeError", "Could not collect reproject RDD")

\* "if param is None: param = 0.0", then float(param)
float_or_zero(p) == IF p = PyNone THEN PyFloat("0.0") ELSE float(TheVal(p))

\* TiledRasterRDD.focal
focal(self, operation, neighborhood, param_1, param_2, param_3) ==
    IF operation \notin OPERATIONS
    THEN Raise(<<>>, "ValueError", "Is not a known operation.")
    ELSE IF neighborhood # PyNone /\ isinstance(TheVal(neighborhood), "Neighborhood")
    THEN LET n == TheVal(neighborhood).Neighborhood
         IN  Ret(<<Call("focal", <<operation, n.name, n.param_1, n.param_2, n.param_3>>)>>,
                 [ok |-> "TiledRasterRDD"])
    ELSE IF neighborhood # PyNone /\ isinstance(TheVal(neighborhood), "str")
    THEN IF TheVal(neighborhood).str \notin NEIGHBORHOODS
         THEN Raise(<<>>, "ValueError", "is not a known neighborhood.")
         ELSE Ret(<<Call("focal", <<operation, TheVal(neighborhood).str,
                                    float_or_zero(param_1), float_or_zero(param_2),
                                    float_or_zero(param_3)>>)>>,
                  [ok |-> "TiledRasterRDD"])
    ELSE IF (~PyTruthy(neighborhood) /\ operation = SLOPE) \/ operation = ASPECT
    THEN Ret(<<Call("focal", <<operation, SQUARE, PyFloat("1.0"), PyFloat("0.0"), PyFloat("0.0")>>)>>,
             [ok |-> "TiledRasterRDD"])
    ELSE Raise(<<>>, "ValueError",
               "neighborhood must be set or the operation must be SLOPE or ASPECT")

\* the entries one item of value_map adds to new_dict
new_dict_entries(item, data_type) ==
    IF isinstance(item.key, data_type) THEN {item}
    ELSE {[key |-> item.key.tuple[i], value |-> item.value]
            : i \in 1..Len(item.key.tuple)}
\* _reclassify; a dict is the set of its items
reclassify_impl(srdd, value_map, data_type, boundary_strategy, replace_nodata_with) ==
    IF \E item \in value_map :
          ~isinstance(item.key, data_type) /\ ~isinstance(item.key, "tuple")
    THEN Raise(<<>>, "TypeError", "Expected list, or tuple for the key")
    ELSE LET new_dict == UNION {new_dict_entries(item, data_type) : item \in value_map}
         IN  IF data_type = "int"
             THEN IF ~PyTruthy(replace_nodata_with)
                  THEN Ret(<<Call("reclassify",
                                  <<new_dict, boundary_strategy, NODATAINT>>)>>,
                           [ok |-> "srdd"])
                  ELSE Ret(<<Call("reclassify",
                                  <<new_dict, boundary_strategy,
                                    TheVal(replace_nodata_with)>>)>>,
                           [ok |-> "srdd"])
             ELSE IF ~PyTruthy(replace_nodata_with)
                  THEN Ret(<<Call("reclassifyDouble",
                                  <<new_dict, boundary_strategy, NaN>>)>>,
                           [ok |-> "srdd"])
                  ELSE Ret(<<Call("reclassifyDouble",
                                  <<new_dict, boundary_strategy,
                                    TheVal(replace_nodata_with)>>)>>,
                           [ok |-> "srdd"])
\* TiledRasterRDD.is_floating_point_layer
is_floating_point_layer(self) ==
    Ret(<<Call("isFloatingPointLayer", <<>>)>>, [ok |-> self.floating])
\* the attribute self.<name> of a method, not called: a bound method object
BoundMethod(self, name) == [method |-> name]
\* TiledRasterRDD.get_histogram
get_histogram(self) ==
    IF PyTruthy(Some(BoundMethod(self, "is_floating_point_layer")))
    THEN Ret(<<Call("getDoubleHistograms", <<>>)>>, [ok |-> "histogram"])
    ELSE Ret(<<Call("getIntHistograms", <<>>)>>, [ok |-> "histogram"])

\* RasterRDD.reclassify and TiledRasterRDD.reclassify
reclassify(self, value_map, data_type, boundary_strategy, replace_nodata_with) ==
    LET r == reclassify_impl(self, value_map, data_type, boundary_strategy,
                             replace_nodata_with)
    IN  IF IsErr(r.out) THEN r ELSE Ret(r.calls, [ok |-> self.cls])

(***************************************************************************)
(* Inputs of the wrapper methods.                                          *)
(***************************************************************************)
\* tile columns and rows of a layout: 1..MaxTile
MaxTile == 4
\* columns and rows asked of lookup: 0..MaxCoord
MaxCoord == 3
\* a key of a layer of the given type
KeyOf(rdd_type, col, row) ==
    IF rdd_type = SPATIAL THEN SpatialKey(col, row) ELSE SpaceTimeKey(col, row, 0)
ZoomLevels == {PyNone, Some(0), Some(3)}
StartZooms == {PyNone, Some(0), Some(2)}
ResampleArgs == {NEARESTNEIGHBOR, "NotAMethod"}
\* what srdd.lookup returns: no tile, or one
LookupReturns == {<<>>} \cup {<<w>> : w \in WireTupleValues}
ExtentArgs == {PyNone, Some(Extent(0, 0, 1, 1)), Some(asdict(Extent(0, 0, 1, 1)))}
LayoutArgs == {PyNone, Some(TileLayout(1, 1, 2, 2)), Some(asdict(TileLayout(1, 1, 2, 2)))}
CrsArgs == {PyNone, Some(PyInt(4326)), Some(PyStr("+proj=longlat"))}
OperationArgs == {"SUM", SLOPE, ASPECT, "NotAnOperation"}
\* Neighborhood(name, param_1, param_2, param_3)
Neighborhood(name, param_1, param_2, param_3) ==
    [Neighborhood |-> [name |-> name, param_1 |-> param_1,
                       param_2 |-> param_2, param_3 |-> param_3]]
NeighborhoodArgs ==
    {PyNone,
     Some(Neighborhood("CIRCLE", PyFloat("1.0"), PyFloat("0.0"), PyFloat("0.0"))),
     Some(PyStr("SQUARE")), Some(PyStr("NotANeighborhood")), Some(PyStr("")),
     Some(PyInt(5)), Some(PyInt(0))}
ParamArgs == {PyNone, Some(PyInt(2))}
ValueMaps ==
    {{[key |-> PyInt(1), value |-> PyInt(10)]},
     {[key |-> PyFloat("1.0"), value |-> PyFloat("2.0")]},
     {[key |-> PyTuple(<<PyInt(1), PyInt(2)>>), value |-> PyInt(10)]},
     {[key |-> PyStr("a"), value |-> PyInt(10)]}}
ReplaceArgs(data_type) ==
    IF data_type = "int" THEN {PyNone, Some(PyInt(0)), Some(PyInt(5))}
    ELSE {PyNone, Some(PyFloat("0.0")), Some(PyFloat("5.0")), Some(NaN)}

(***************************************************************************)
(* The wrapper as a state machine: a wrapper is constructed around a       *)
(* backend layer and its methods are called; each call leaves the calls    *)
(* it made on the backend and what it returned or raised.                  *)
(***************************************************************************)
\* what a method call leaves behind
Called(o, r) ==
    /\ IsNil(outcome)
    /\ op' = o
    /\ backend' = r.calls
    /\ outcome' = r.out
    /\ UNCHANGED layer
    /\ UNCHANGED <<codecVars, chanVars, metaVars, cacheVars>>

Construct(l) ==
    /\ IsNil(layer)
    /\ layer' = l
    /\ op' = [name |-> "__init__"]
    /\ backend' = <<>>
    /\ outcome' = Nil
    /\ UNCHANGED <<codecVars, chanVars, metaVars, cacheVars>>

Lookup(col, row, array_of_tiles) ==
    /\ ~IsNil(layer)
    /\ layer.cls = "TiledRasterRDD"
    /\ Called([name |-> "lookup", col |-> col, row |-> row],
              lookup(layer, col, row, array_of_tiles))

Pyramid(end_zoom, start_zoom, resample_method) ==
    /\ ~IsNil(layer)
    /\ layer.cls = "TiledRasterRDD"
    /\ Called([name |-> "pyramid", end_zoom |-> end_zoom, start_zoom |-> start_zoom,
               resample_method |-> resample_method],
              pyramid(layer, end_zoom, start_zoom, resample_method))

CollectMetadata(extent, layout, crs, tile_size) ==
    /\ ~IsNil(layer)
    /\ layer.cls = "RasterRDD"
    /\ Called([name |-> "collect_metadata", extent |-> extent, layout |-> layout,
               crs |-> crs, tile_size |-> tile_size],
              collect_metadata(layer, extent, layout, crs, tile_size))

Reproject(target_crs, extent, layout, resample_method) ==
    /\ ~IsNil(layer)
    /\ layer.cls = "TiledRasterRDD"
    /\ Called([name |-> "reproject", target_crs |-> target_crs, extent |-> extent,
               layout |-> layout, resample_method |-> resample_method],
              reproject(layer, target_crs, extent, layout, FLOAT, PyInt(256),
                        PyFloat("0.1"), resample_method))

Focal(operation, neighborhood, param_1) ==
    /\ ~IsNil(layer)
    /\ layer.cls = "TiledRasterRDD"
    /\ Called([name |-> "focal", operation |-> operation,
               neighborhood |-> neighborhood, param_1 |-> param_1],
              focal(layer, operation, neighborhood, param_1, PyNone, PyNone))

Reclassify(value_map, data_type, replace_nodata_with) ==
    /\ ~IsNil(layer)
    /\ Called([name |-> "reclassify", value_map |-> value_map, data_type |-> data_type,
               replace_nodata_with |-> replace_nodata_with],
              reclassify(layer, value_map, data_type, LESSTHANOREQUALTO,
                         replace_nodata_with))

IsFloatingPointLayer ==
    /\ ~IsNil(layer)
    /\ layer.cls = "TiledRasterRDD"
    /\ Called([name |-> "is_floating_point_layer"], is_floating_point_layer(layer))

GetHistogram ==
    /\ ~IsNil(layer)
    /\ layer.cls = "TiledRasterRDD"
    /\ Called([name |-> "get_histogram"], get_histogram(layer))

\* the caller takes the result, or catches the exception, of the last call
Consume ==
    /\ ~IsNil(outcome)
    /\ op' = [name |-> "__init__"]
    /\ backend' = <<>>
    /\ outcome' = Nil
    /\ UNCHANGED layer
    /\ UNCHANGED <<codecVars, chanVars, metaVars, cacheVars>>

\* the caller drops the wrapper
Discard ==
    /\ ~IsNil(layer)
    /\ IsNil(outcome)
    /\ layer' = Nil
    /\ op' = [name |-> "none"]
    /\ backend' = <<>>
    /\ outcome' = Nil
    /\ UNCHANGED <<codecVars, chanVars, metaVars, cacheVars>>

NextRdd ==
    \/ \E rdd_type \in {SPATIAL, SPACETIME} : Construct(RasterRDD(rdd_type))
    \/ \E rdd_type \in {SPATIAL, SPACETIME} : \E c \in 1..2 : \E r \in 1..2 :
       \E tileCols \in 1..MaxTile : \E tileRows \in 1..MaxTile : \E zoom \in ZoomLevels :
       \E floating \in BOOLEAN :
          Construct(TiledRasterRDD(rdd_type,
                                   Bounds(KeyOf(rdd_type, 1, 1), KeyOf(rdd_type, c, r)),
                                   TileLayout(1, 1, tileCols, tileRows), zoom, floating))
    \/ \E col \in 0..MaxCoord : \E row \in 0..MaxCoord : \E tiles \in LookupReturns :
          Lookup(col, row, tiles)
    \/ \E start_zoom \in StartZooms : \E m \in ResampleArgs : Pyramid(0, start_zoom, m)
    \/ \E extent \in ExtentArgs : \E layout \in LayoutArgs : \E crs \in CrsArgs :
          CollectMetadata(extent, layout, crs, 256)
    \/ \E extent \in ExtentArgs : \E layout \in LayoutArgs : \E m \in ResampleArgs :
       \E target_crs \in {PyInt(3857), PyStr("+proj=longlat")} :
          Reproject(target_crs, extent, layout, m)
    \/ \E operation \in OperationArgs : \E neighborhood \in NeighborhoodArgs :
       \E param_1 \in ParamArgs :
          Focal(operation, neighborhood, param_1)
    \/ \E data_type \in {"int", "float"} : \E value_map \in ValueMaps :
       \E replace \in ReplaceArgs(data_type) :
          Reclassify(value_map, data_type, replace)
    \/ IsFloatingPointLayer
    \/ GetHistogram
    \/ Consume
    \/ Discard

SpecRdd == Init /\ [][NextRdd]_vars

(***************************************************************************)
(* geopyspark.geotrellis.Metadata: from_dict and to_dict.                  *)
(*                                                                         *)
(* class_metadata_dict is the attribute _metadata_dict of the class        *)
(* Metadata (absent: PyNone); an instance carries its own fields and, in   *)
(* metadata_dict, the attribute _metadata_dict of the instance itself      *)
(* (absent: PyNone).  A dict is asdict(fields), a namedtuple is the record *)
(* of its fields.                                                          *)
(***************************************************************************)
MaxInstances == 2

LayoutDefinition(extent, tileLayout) == [extent |-> extent, tileLayout |-> tileLayout]

\* len(d) of a dict
len(d) == Cardinality(DOMAIN d.dict)
\* SpatialKey(**d), SpaceTimeKey(**d), Extent(**d), TileLayout(**d)
SpatialKeyOf(d) == SpatialKey(d.dict.col, d.dict.row)
SpaceTimeKeyOf(d) == SpaceTimeKey(d.dict.col, d.dict.row, d.dict.instant)
ExtentOf(d) == Extent(d.dict.xmin, d.dict.ymin, d.dict.xmax, d.dict.ymax)
TileLayoutOf(d) ==
    TileLayout(d.dict.layoutCols, d.dict.layoutRows, d.dict.tileCols, d.dict.tileRows)

\* Bounds._asdict(self)
Bounds_asdict(self) ==
    LET min_key_dict == IF isinstance(self.minKey, "dict") THEN self.minKey
                        ELSE asdict(self.minKey)
        max_key_dict == IF isinstance(self.maxKey, "dict") THEN self.maxKey
                        ELSE asdict(self.maxKey)
    IN  asdict([minKey |-> min_key_dict, maxKey |-> max_key_dict])

\* Metadata.__init__(self, bounds, crs, cell_type, extent, layout_definition)
Metadata(bounds, crs, cell_type, extent, layout_definition) ==
    [bounds |-> bounds, crs |-> crs, cell_type |-> cell_type, extent |-> extent,
     tile_layout |-> layout_definition.tileLayout,
     layout_definition |-> layout_definition,
     metadata_dict |-> PyNone]

\* Metadata.from_dict(cls, metadata_dict): the class attribute it leaves and
\* the instance it returns
from_dict(metadata_dict) ==
    LET crs == metadata_dict.dict.crs
        cell_type == metadata_dict.dict.cellType
        bounds_dict == metadata_dict.dict.bounds
        spatial == len(bounds_dict.dict.minKey) = 2
        min_key == IF spatial THEN SpatialKeyOf(bounds_dict.dict.minKey)
                   ELSE SpaceTimeKeyOf(bounds_dict.dict.minKey)
        max_key == IF spatial THEN SpatialKeyOf(bounds_dict.dict.maxKey)
                   ELSE SpaceTimeKeyOf(bounds_dict.dict.maxKey)
        bounds == Bounds(min_key, max_key)
        extent == ExtentOf(metadata_dict.dict.extent)
        layout_definition ==
            LayoutDefinition(ExtentOf(metadata_dict.dict.layoutDefinition.dict.extent),
                             TileLayoutOf(metadata_dict.dict.layoutDefinition.dict.tileLayout))
    IN  [class_dict |-> Some(metadata_dict),
         instance |-> Metadata(bounds, crs, cell_type, extent, layout_definition)]

\* hasattr(self, '_metadata_dict'): on the instance or on its class
has_metadata_dict(self, class_dict) ==
    self.metadata_dict # PyNone \/ class_dict # PyNone
\* self._metadata_dict: the instance's attribute, else the class's
get_metadata_dict(self, class_dict) ==
    IF self.metadata_dict # PyNone THEN TheVal(self.metadata_dict) ELSE TheVal(class_dict)

\* the dict to_dict builds from the fields of the instance
fields_dict(self) ==
    asdict([bounds |-> Bounds_asdict(self.bounds),
            crs |-> self.crs,
            cellType |-> self.cell_type,
            extent |-> asdict(self.extent),
            layoutDefinition |->
                asdict([extent |-> asdict(self.layout_definition.extent),
                        tileLayout |-> asdict(self.tile_layout)])])

\* Metadata.to_dict(self): the instance as the call leaves it and the dict
\* it returns
to_dict(self, class_dict) ==
    LET after == IF ~has_metadata_dict(self, class_dict)
                 THEN [self EXCEPT !.metadata_dict = Some(fields_dict(self))]
                 ELSE self
    IN  [self |-> after, value |-> get_metadata_dict(after, class_dict)]

\* the metadata of a layer in dict form
MetadataDict(rdd_type, crs, cell_type, tileCols) ==
    asdict([bounds |-> asdict([minKey |-> asdict(KeyOf(rdd_type, 0, 0)),
                               maxKey |-> asdict(KeyOf(rdd_type, 1, 1))]),
            crs |-> crs,
            cellType |-> cell_type,
            extent |-> asdict(Extent(0, 0, 1, 1)),
            layoutDefinition |->
                asdict([extent |-> asdict(Extent(0, 0, 1, 1)),
                        tileLayout |-> asdict(TileLayout(2, 2, tileCols, tileCols))])])
CrsChoices == {"+proj=longlat", "+proj=merc"}
CellTypeChoices == {"uint8", "float32"}

\* m = Metadata.from_dict(d)
FromDict(d) ==
    /\ Len(instances) < MaxInstances
    /\ class_metadata_dict' = from_dict(d).class_dict
    /\ instances' = Append(instances, from_dict(d).instance)
    /\ returned' = Nil
    /\ UNCHANGED <<codecVars, chanVars, rddVars, cacheVars>>

\* m = Metadata(bounds, crs, cell_type, extent, layout_definition)
NewMetadata(m) ==
    /\ Len(instances) < MaxInstances
    /\ instances' = Append(instances, m)
    /\ returned' = Nil
    /\ UNCHANGED class_metadata_dict
    /\ UNCHANGED <<codecVars, chanVars, rddVars, cacheVars>>

\* instances[i].to_dict()
ToDict(i) ==
    /\ instances' = [instances EXCEPT ![i] = to_dict(instances[i], class_metadata_dict).self]
    /\ returned' = [index |-> i, value |-> to_dict(instances[i], class_metadata_dict).value]
    /\ UNCHANGED class_metadata_dict
    /\ UNCHANGED <<codecVars, chanVars, rddVars, cacheVars>>

\* the instances are dropped; the class keeps its attributes
DropInstances ==
    /\ instances # <<>>
    /\ instances' = <<>>
    /\ returned' = Nil
    /\ UNCHANGED class_metadata_dict
    /\ UNCHANGED <<codecVars, chanVars, rddVars, cacheVars>>

NextMetadata ==
    \/ \E rdd_type \in {SPATIAL, SPACETIME} : \E crs \in CrsChoices :
       \E cell_type \in CellTypeChoices : \E tileCols \in 1..2 :
          FromDict(MetadataDict(rdd_type, crs, cell_type, tileCols))
    \/ \E rdd_type \in {SPATIAL, SPACETIME} : \E crs \in CrsChoices :
          NewMetadata(Metadata(Bounds(KeyOf(rdd_type, 0, 0), KeyOf(rdd_type, 1, 1)),
                               crs, "uint8", Extent(0, 0, 1, 1),
                               LayoutDefinition(Extent(0, 0, 1, 1), TileLayout(2, 2, 1, 1))))
    \/ \E i \in 1..Len(instances) : ToDict(i)
    \/ DropInstances

SpecMetadata == Init /\ [][NextMetadata]_vars

(***************************************************************************)
(* geopyspark.geotrellis.rdd.CachableRDD: cache, persist and unpersist.    *)
(*                                                                         *)
(* cachable is the wrapper: its class, its is_cached flag and, for a       *)
(* Pyramid, the zoom levels that key its levels dict.  persisted[i] tells  *)
(* whether the backend holds the i-th wrapped RDD persisted.  cachecall is *)
(* the last call: its name, the backend method it forwards, how many times *)
(* it was forwarded to each wrapped RDD, and whether a backend call raised.*)
(***************************************************************************)
MaxLevels == 3

\* CachableRDD.__init__ as run by RasterRDD.__init__ and TiledRasterRDD.__init__
CachableRDD(cls) == [cls |-> cls, is_cached |-> FALSE, levels |-> {}]
\* Pyramid.__init__(self, levels) for a list of layers of the given zoom
\* levels: the dict keeps one layer per zoom level
PyramidOf(zoom_levels) ==
    [cls |-> "Pyramid", is_cached |-> FALSE,
     levels |-> {zoom_levels[i] : i \in 1..Len(zoom_levels)}]

\* CachableRDD.wrapped_rdds and Pyramid.wrapped_rdds: the wrapped RDDs, by
\* their position
\* only the first wrapped RDD
wrapped_rdds_first(self) == <<1>>
wrapped_rdds(self) ==
    IF self.cls = "Pyramid" THEN [i \in 1..Cardinality(self.levels) |-> i] ELSE <<1>>

\* the loop `for srdd in self.wrapped_rdds(): srdd.<fn>()` over a backend in
\* state held, whose fail-th call raises (0: none does); a call that raises
\* leaves its RDD as it was and ends the loop
forward(self, held, value, fail) ==
    LET rdds == wrapped_rdds(self)
        reached(i) == \E k \in 1..Len(rdds) : rdds[k] = i /\ (fail = 0 \/ k <= fail)
        done(i) == \E k \in 1..Len(rdds) : rdds[k] = i /\ (fail = 0 \/ k < fail)
    IN  [persisted |-> [i \in 1..Len(held) |-> IF done(i) THEN value ELSE held[i]],
         forwarded |-> [i \in 1..Len(held) |-> IF reached(i) THEN 1 ELSE 0],
         raised |-> fail # 0]

\* CachableRDD.persist(self, storageLevel)
persist(self, held, fail) ==
    [self |-> [self EXCEPT !.is_cached = TRUE], loop |-> forward(self, held, TRUE, fail)]
\* CachableRDD.unpersist(self)
unpersist(self, held, fail) ==
    [self |-> [self EXCEPT !.is_cached = FALSE], loop |-> forward(self, held, FALSE, fail)]
\* CachableRDD.cache(self)
cache(self, held, fail) == persist(self, held, fail)

\* a wrapper is constructed over backend RDDs that are not persisted
ConstructCachable(w) ==
    /\ IsNil(cachable)
    /\ cachable' = w
    /\ persisted' = [i \in 1..Len(wrapped_rdds(w)) |-> FALSE]
    /\ cachecall' = [name |-> "none"]
    /\ UNCHANGED <<codecVars, chanVars, rddVars, metaVars>>

\* name is cache, persist or unpersist, r what the call does
CacheCalled(name, fn, r) ==
    /\ cachable' = r.self
    /\ persisted' = r.loop.persisted
    /\ cachecall' = [name |-> name, fn |-> fn, forwarded |-> r.loop.forwarded,
                     raised |-> r.loop.raised]
    /\ UNCHANGED <<codecVars, chanVars, rddVars, metaVars>>

Cache(fail) ==
    /\ ~IsNil(cachable)
    /\ CacheCalled("cache", "persist", cache(cachable, persisted, fail))
Persist(fail) ==
    /\ ~IsNil(cachable)
    /\ CacheCalled("persist", "persist", persist(cachable, persisted, fail))
Unpersist(fail) ==
    /\ ~IsNil(cachable)
    /\ CacheCalled("unpersist", "unpersist", unpersist(cachable, persisted, fail))

\* the wrapper is dropped
DropCachable ==
    /\ ~IsNil(cachable)
    /\ cachable' = Nil
    /\ persisted' = <<>>
    /\ cachecall' = [name |-> "none"]
    /\ UNCHANGED <<codecVars, chanVars, rddVars, metaVars>>

ZoomLists == UNION {[1..n -> 0..(MaxLevels - 1)] : n \in 1..MaxLevels}

NextCache ==
    \/ \E cls \in {"RasterRDD", "TiledRasterRDD"} : ConstructCachable(CachableRDD(cls))
    \/ \E zoom_levels \in ZoomLists : ConstructCachable(PyramidOf(zoom_levels))
    \/ \E fail \in 0..Len(persisted) : Cache(fail)
    \/ \E fail \in 0..Len(persisted) : Persist(fail)
    \/ \E fail \in 0..Len(persisted) : Unpersist(fail)
    \/ DropCachable

SpecCache == Init /\ [][NextCache]_vars

(***************************************************************************)
(* Properties.                                                             *)
(***************************************************************************)
FromHost == ~IsNil(arg)
FromBackend == IsNil(arg)
HasNoData(d) == "no_data_value" \in DOMAIN d /\ d.no_data_value # PyNone
SameNoData(a, b) ==
    /\ HasNoData(a) = HasNoData(b)
    /\ HasNoData(a) => a.no_data_value = b.no_data_value
Rows(a) == a.shape[Len(a.shape) - 1]
Cols(a) == a.shape[Len(a.shape)]
\* an array of one band: (rows, cols) or (1, rows, cols)
SingleBand(a) == ndim(a) = 2 \/ a.shape[1] = 1
\* a multiband dict as the multiband codec is documented to take it
ValidMultiband(m) ==
    /\ ndim(m.data) = 3
    /\ m.data.shape[1] >= 1
    /\ "no_data_value" \in DOMAIN m
SameBands(a, b) ==
    /\ ndim(b.data) = 3
    /\ b.data.shape[1] = a.data.shape[1]
    /\ \A i \in 0..(a.data.shape[1] - 1) : band_slice(b.data, i) = band_slice(a.data, i)
SameMultiband(a, b) ==
    /\ SameBands(a, b)
    /\ b.data_type = a.data_type
    /\ SameNoData(a, b)
\* exactly one of epsg and proj4 given, the epsg code not 0
ValidCRS(k) ==
    \/ k.epsg # PyNone /\ k.epsg # Some(0) /\ k.proj4 = PyNone
    \/ k.epsg = PyNone /\ k.proj4 # PyNone
ValidKey(kind, k) ==
    kind \in {"ProjectedExtent", "TemporalProjectedExtent"} => ValidCRS(k)

\* C1: a single-band tile of any cell type, with or without a no-data
\* value (0 included), encoded by tile_encoder and decoded by tile_decoder
\* comes back with the same cells, rows, cols, data_type and no-data
\* presence and value.
C1_TileRoundTrip ==
    (~tupled /\ schema = "Tile" /\ FromHost /\ pc \in {"encoded", "decoded"}
        /\ SingleBand(arg.data)) =>
        /\ ~IsErr(msg)
        /\ pc = "decoded" =>
              /\ ~IsErr(res)
              /\ res.data.cells = arg.data.cells
              /\ Rows(res.data) = Rows(arg.data)
              /\ Cols(res.data) = Cols(arg.data)
              /\ res.data_type = arg.data_type
              /\ SameNoData(arg, res)

\* C2: a multiband tile of n >= 1 bands encoded by multibandtile_encoder
\* and decoded by multibandtile_decoder has n bands, each equal to the
\* band it came from, and the data_type and no-data value of the input.
C2_MultibandRoundTrip ==
    (~tupled /\ schema = "MultibandTile" /\ FromHost /\ pc \in {"encoded", "decoded"}
        /\ ValidMultiband(arg)) =>
        /\ ~IsErr(msg)
        /\ pc = "decoded" => (~IsErr(res) /\ SameMultiband(arg, res))

\* C3: a well-formed MultibandTile message from the backend, decoded and
\* encoded again, gives a message equal to it, without an error.
C3_WireMultibandRoundTrip ==
    (~tupled /\ schema = "MultibandTile" /\ FromBackend /\ pc \in {"decoded", "reencoded"}
        /\ WellFormedMultiband(msg)) =>
        /\ ~IsErr(res)
        /\ pc = "reencoded" => (~IsErr(msg2) /\ msg2 = msg)

\* C4: for each of the four key kinds, tuple_encoder succeeds on a tuple
\* (key, value) and tuple_decoder of the bytes returns the same key and an
\* equal multiband value.
C4_TupleRoundTrip ==
    (tupled /\ schema \in KeyKinds /\ FromHost /\ pc \in {"encoded", "decoded"}
        /\ ValidKey(schema, arg.key) /\ ValidMultiband(arg.value)) =>
        /\ ~IsErr(msg)
        /\ pc = "decoded" =>
              /\ ~IsErr(res)
              /\ res.key = arg.key
              /\ SameMultiband(arg.value, res.value)

\* C5: a valid ProjectedExtent, TemporalProjectedExtent, SpatialKey or
\* SpaceTimeKey encoded by its own encoder and decoded by its own decoder
\* comes back equal in every field.
C5_KeyRoundTrip ==
    (~tupled /\ schema \in KeyKinds /\ FromHost /\ pc \in {"encoded", "decoded"}
        /\ ValidKey(schema, arg)) =>
        /\ ~IsErr(msg)
        /\ pc = "decoded" => (~IsErr(res) /\ res = arg)
C5_Witness ==
    /\ pc = "decoded" /\ ~tupled /\ FromHost
    /\ schema = "TemporalProjectedExtent"
    /\ ValidKey(schema, arg)
    /\ arg.proj4 = Some("+proj=longlat") /\ arg.instant = 5 /\ arg.extent = Extent(-1, 2, 3, 4)
    /\ res = arg

\* C6: a ProjectedExtent with a nonzero epsg decodes to that epsg with
\* proj4 absent; one with a proj4 string and no epsg decodes to that
\* proj4 with no epsg.
C6_CRSDispatch ==
    (~tupled /\ schema = "ProjectedExtent" /\ FromHost /\ pc \in {"encoded", "decoded"}) =>
        /\ Truthy(arg.epsg) =>
              /\ ~IsErr(msg)
              /\ pc = "decoded" => (res.epsg = arg.epsg /\ res.proj4 = PyNone)
        /\ (arg.epsg = PyNone /\ arg.proj4 # PyNone) =>
              /\ ~IsErr(msg)
              /\ pc = "decoded" => (res.proj4 = arg.proj4 /\ res.epsg = PyNone)
C6_Witness ==
    /\ pc = "decoded" /\ ~tupled /\ FromHost
    /\ schema = "ProjectedExtent"
    /\ arg.epsg = Some(4326) /\ arg.proj4 = PyNone
    /\ res.epsg = Some(4326) /\ res.proj4 = PyNone

\* the number of values a tile record stores for its declared cell type
StoredCells(tile) ==
    IF tile.cellType.dataType \in 0..7
    THEN Len(tile[Container(mapped_data_types[tile.cellType.dataType])])
    ELSE Len(tile.uint32Cells) + Len(tile.sint32Cells)
            + Len(tile.floatCells) + Len(tile.doubleCells)
Malformed(tile) == tile.rows * tile.cols # StoredCells(tile)

OneCellType(w) ==
    \A i \in 1..Len(w.tiles) : w.tiles[i].cellType.dataType = w.tiles[1].cellType.dataType
SomeBandMalformed(w) == \E i \in 1..Len(w.tiles) : Malformed(w.tiles[i])

\* C7: decoding a tile record whose rows*cols differs from the number of
\* stored cell values fails; no array is returned.  Checked for the tile
\* decoder and for the bands of a multiband message of one cell type.
C7_MalformedTileFails ==
    (~tupled /\ FromBackend /\ pc = "decoded") =>
        /\ (schema = "Tile" /\ Malformed(msg)) => IsErr(res)
        /\ (schema = "MultibandTile" /\ OneCellType(msg) /\ SomeBandMalformed(msg)) =>
              IsErr(res)
C7_Witness ==
    /\ pc = "decoded" /\ ~tupled /\ FromBackend
    /\ schema = "Tile"
    /\ msg.cellType.dataType \in 0..7
    /\ msg.rows * msg.cols > StoredCells(msg)
    /\ StoredCells(msg) > 0
    /\ IsErr(res) /\ res.err = "ValueError"

\* C8: a schema name that is none of the six known names resolves to no
\* codec: the encoder lookup and the decoder lookup both raise.
C8_UnknownSchemaName ==
    (~tupled /\ schema \notin KnownNames) =>
        /\ (pc = "encoded") => (IsErr(msg) /\ msg.err = "Exception")
        /\ (pc = "decoded") => (IsErr(res) /\ res.err = "Exception")
C8_Witness ==
    /\ pc = "decoded" /\ ~tupled
    /\ schema = "NotARealType"
    /\ IsErr(res) /\ res.err = "Exception"

\* C9: decoding a tile, or a multiband tile, whose cell-type discriminant
\* (for a multiband tile: the one of band 0, which names the cell type of
\* the result) is outside 0..7 fails.
C9_UnknownCellType ==
    (~tupled /\ FromBackend /\ pc = "decoded") =>
        /\ (schema = "Tile" /\ msg.cellType.dataType \notin 0..7) => IsErr(res)
        /\ (schema = "MultibandTile" /\ msg.tiles[1].cellType.dataType \notin 0..7) =>
              IsErr(res)
C9_Witness ==
    /\ pc = "decoded" /\ ~tupled /\ FromBackend
    /\ schema = "MultibandTile"
    /\ msg.tiles[1].cellType.dataType = 8
    /\ ~Malformed(msg.tiles[1])
    /\ IsErr(res) /\ res.err = "KeyError"

\* the record the serializer's decode function makes of one frame
DecodedRecord(self, frame) ==
    IF schema_name(self) \in COLLECTIONS
    THEN channel_collection_decoder(AvroRead(frame), schema_dict(self))
    ELSE channel_decoder(AvroRead(frame))

\* C10: after k of the N frames written have been read, exactly k records
\* have been collected, record i being what decode made of frame i; a
\* drained channel has yielded N records in the order written.
C10_Batching ==
    ~IsNil(serializer) =>
        LET consumed == Len(written) - Len(stream)
        IN  /\ Len(collected) = consumed
            /\ \A i \in 1..consumed :
                  collected[i] =
                      DecodedRecord(serializer,
                                    dumps(serializer, written[i], serializer.schema_json))
C10_Witness ==
    /\ ~IsNil(serializer)
    /\ schema_name(serializer) \in COLLECTIONS
    /\ stream = <<>>
    /\ Len(written) = 3
    /\ Len(collected) = 3
    /\ written[1] # written[2]
    /\ Len(written[2].items) = 2

\* the key slot of a ProtoTuple that a key kind names
SlotOf(kind) ==
    CASE kind = "ProjectedExtent" -> "projectedExtent"
      [] kind = "TemporalProjectedExtent" -> "temporalProjectedExtent"
      [] kind = "SpatialKey" -> "spatialKey"
      [] kind = "SpaceTimeKey" -> "spaceTimeKey"
      [] OTHER -> "none"

\* C11: tuple_decoder called with a key kind whose slot the record does not
\* populate, or with a name that is none of the four key kinds, fails; it
\* returns no key built from default field values.
C11_NoDefaultKey ==
    (tupled /\ FromBackend /\ pc = "decoded"
        /\ (schema \notin KeyKinds \/ SlotOf(schema) \notin msg.populated)) =>
        IsErr(res)

\* C12: when tile_encoder, multibandtile_encoder or tuple_encoder has
\* returned, the caller's input record is what it was before the call: the
\* same data array (shape included), data_type and no_data_value.
C12_EncodePure ==
    (FromHost /\ pc = "encoded" /\ ~IsErr(msg)
        /\ (tupled \/ schema \in {"Tile", "MultibandTile"})) =>
        obj = arg

\* C13: every tile record tile_encoder produces, from a (rows, cols) array
\* or a (bands, rows, cols) array of any number of bands, carries exactly
\* rows*cols cell values.
C13_CellCount ==
    (~tupled /\ schema = "Tile" /\ FromHost /\ pc = "encoded" /\ ~IsErr(msg)) =>
        StoredCells(msg) = msg.rows * msg.cols

(***************************************************************************)
(* Properties of the wrapper methods.                                      *)
(***************************************************************************)
BackendCalled(fn) == \E i \in 1..Len(backend) : backend[i].fn = fn
LastCall == backend[Len(backend)]
Raised(cls) == IsErr(outcome) /\ outcome.err = cls
InBounds(l, col, row) ==
    /\ l.bounds.minKey.col <= col /\ col <= l.bounds.maxKey.col
    /\ l.bounds.minKey.row <= row /\ row <= l.bounds.maxKey.row

\* C14: lookup(col, row) raises ValueError on a layer that is not SPATIAL,
\* raises IndexError on a SPATIAL layer when col or row is outside
\* [minKey, maxKey], and calls the backend lookup, with col and row, exactly
\* when the layer is SPATIAL and col and row are within the bounds.
C14_Lookup ==
    op.name = "lookup" =>
        /\ layer.rdd_type # SPATIAL => Raised("ValueError")
        /\ (layer.rdd_type = SPATIAL /\ ~InBounds(layer, op.col, op.row)) =>
              Raised("IndexError")
        /\ BackendCalled("lookup") <=>
              (layer.rdd_type = SPATIAL /\ InBounds(layer, op.col, op.row))
        /\ BackendCalled("lookup") =>
              (~IsErr(outcome) /\ LastCall = Call("lookup", <<op.col, op.row>>))
C14_Witness ==
    /\ op.name = "lookup"
    /\ layer.rdd_type = SPATIAL
    /\ op.col = layer.bounds.maxKey.col /\ op.col > layer.bounds.minKey.col
    /\ op.row = layer.bounds.minKey.row
    /\ BackendCalled("lookup")
    /\ Len(outcome.ok) = 1

IsPowerOfTwo(n) == \E k \in 0..n : 2 ^ k = n
PowerOfTwoMessage == "Tiles must have a col and row count that is a power of 2"

Supplied(x) == x # PyNone
AsDictOf(x) == IF isinstance(TheVal(x), "dict") THEN TheVal(x) ELSE asdict(TheVal(x))

KnownNeighborhood(nb) ==
    /\ nb # PyNone
    /\ \/ isinstance(TheVal(nb), "Neighborhood")
       \/ (isinstance(TheVal(nb), "str") /\ TheVal(nb).str \in NEIGHBORHOODS)

\* C17: focal with a known operation calls the backend with the default
\* SQUARE neighbourhood when no neighbourhood is given and the operation is
\* SLOPE or ASPECT; in every other case where the neighbourhood is neither a
\* Neighborhood nor a known name it raises ValueError and calls nothing.
C17_FocalDefault ==
    (op.name = "focal" /\ op.operation \in OPERATIONS) =>
        LET default == op.neighborhood = PyNone /\ op.operation \in {SLOPE, ASPECT}
        IN  /\ default =>
                  backend = <<Call("focal", <<op.operation, SQUARE, PyFloat("1.0"),
                                              PyFloat("0.0"), PyFloat("0.0")>>)>>
            /\ (~default /\ ~KnownNeighborhood(op.neighborhood)) =>
                  (Raised("ValueError") /\ backend = <<>>)

\* C18: reclassify gives the backend the caller's replace_nodata_with as
\* the no-data replacement whenever one is supplied (0 included); only when
\* it is None does the backend get NODATAINT (int) or NaN (float).
C18_ReplaceNoData ==
    (op.name = "reclassify" /\ ~IsErr(outcome)) =>
        /\ Len(backend) = 1
        /\ Supplied(op.replace_nodata_with) =>
              LastCall.args[3] = TheVal(op.replace_nodata_with)
        /\ ~Supplied(op.replace_nodata_with) =>
              LastCall.args[3] = (IF op.data_type = "int" THEN NODATAINT ELSE NaN)

\* C19: pyramid on a layer whose tile dimensions are powers of 2 starts at
\* the caller's start_zoom whenever it is not None (0 included), at the
\* layer's zoom level when start_zoom is None, and raises only when
\* start_zoom is None and the layer has no zoom level.
C19_StartZoom ==
    (/\ op.name = "pyramid"
     /\ op.resample_method \in RESAMPLE_METHODS
     /\ IsPowerOfTwo(layer.tile_layout.tileCols)
     /\ IsPowerOfTwo(layer.tile_layout.tileRows)) =>
        /\ Supplied(op.start_zoom) =>
              /\ ~IsErr(outcome)
              /\ LastCall = Call("pyramid", <<TheVal(op.start_zoom), op.end_zoom,
                                              op.resample_method>>)
        /\ (~Supplied(op.start_zoom) /\ Supplied(layer.zoom)) =>
              /\ ~IsErr(outcome)
              /\ LastCall = Call("pyramid", <<TheVal(layer.zoom), op.end_zoom,
                                              op.resample_method>>)
        /\ IsErr(outcome) => (~Supplied(op.start_zoom) /\ ~Supplied(layer.zoom))

\* C20: tile_encoder sets hasNoData exactly when the input tile has a
\* no-data value, whatever the value (0 included), and stores the value;
\* tile_decoder attaches no_data_value exactly when hasNoData is set.
C20_NoDataFlag ==
    (~tupled /\ schema = "Tile") =>
        /\ (FromHost /\ pc = "encoded" /\ ~IsErr(msg)) =>
              /\ msg.cellType.hasNoData = HasNoData(arg)
              /\ HasNoData(arg) => msg.cellType.nd = TheVal(arg.no_data_value)
        /\ (pc = "decoded" /\ ~IsErr(res)) =>
              /\ ("no_data_value" \in DOMAIN res) = msg.cellType.hasNoData
              /\ msg.cellType.hasNoData => res.no_data_value = Some(msg.cellType.nd)

\* every band holds rows*cols cells in the container of the cell type it
\* declares
EachBandWellFormed(w) ==
    /\ w.tiles # <<>>
    /\ \A i \in 1..Len(w.tiles) : WellFormedTile(w.tiles[i])

\* C21: a multiband message whose bands are each well-formed decodes
\* without error whatever cell type and no-data setting the later bands
\* declare, and the result has band 0's cell type and no-data value.
C21_BandZeroCellType ==
    (~tupled /\ schema = "MultibandTile" /\ FromBackend /\ pc = "decoded"
        /\ EachBandWellFormed(msg)) =>
        /\ ~IsErr(res)
        /\ res.data_type = mapped_data_types[msg.tiles[1].cellType.dataType]
        /\ ("no_data_value" \in DOMAIN res) = msg.tiles[1].cellType.hasNoData
        /\ msg.tiles[1].cellType.hasNoData =>
              res.no_data_value = Some(msg.tiles[1].cellType.nd)

\* the decoded ProjectedExtent or TemporalProjectedExtent of the state, and
\* the wire message it was decoded from
DecodedCRSKey == IF tupled THEN res.key ELSE res
DecodedCRSWire == IF tupled THEN msg[SlotOf(schema)].crs ELSE msg.crs

\* C22: a decoded ProjectedExtent or TemporalProjectedExtent has exactly one
\* of epsg and proj4: the epsg alone when the wire epsg is not 0, the proj4
\* alone when it is 0; a decoded epsg is never 0.
C22_ExactlyOneCRS ==
    (pc = "decoded" /\ ~IsErr(res)
        /\ schema \in {"ProjectedExtent", "TemporalProjectedExtent"}) =>
        /\ (DecodedCRSKey.epsg # PyNone) # (DecodedCRSKey.proj4 # PyNone)
        /\ DecodedCRSWire.epsg # 0 =>
              (DecodedCRSKey.epsg = Some(DecodedCRSWire.epsg)
                  /\ DecodedCRSKey.proj4 = PyNone)
        /\ DecodedCRSWire.epsg = 0 =>
              (DecodedCRSKey.proj4 = Some(DecodedCRSWire.proj4)
                  /\ DecodedCRSKey.epsg = PyNone)
        /\ DecodedCRSKey.epsg # Some(0)
C22_Witness ==
    /\ pc = "decoded" /\ ~IsErr(res) /\ ~tupled /\ FromBackend
    /\ schema = "TemporalProjectedExtent"
    /\ msg.crs = ProtoCRS(0, "+proj=longlat")
    /\ res.proj4 = Some("+proj=longlat")
    /\ res.epsg = PyNone

\* C26: get_histogram asks the backend for double histograms when the layer
\* is a floating-point layer and for integer histograms when it is not.
C26_HistogramKind ==
    op.name = "get_histogram" =>
        /\ ~IsErr(outcome)
        /\ layer.floating => LastCall.fn = "getDoubleHistograms"
        /\ ~layer.floating => LastCall.fn = "getIntHistograms"

\* C23: the dict returned by to_dict describes the fields of the instance it
\* was called on, whatever from_dict and to_dict calls were made on other
\* instances before.
C23_OwnFields ==
    ~IsNil(returned) => returned.value = fields_dict(instances[returned.index])

WrappedCount ==
    IF cachable.cls = "Pyramid" THEN Cardinality(cachable.levels) ELSE 1

\* C24: after a cache, persist or unpersist whose backend calls succeeded,
\* is_cached is True exactly when the call was cache or persist, and the
\* call was forwarded once to every wrapped backend RDD (for a Pyramid, the
\* RDD of every level), which is persisted exactly when is_cached is True.
C24_Forwarded ==
    (cachecall.name # "none" /\ ~cachecall.raised) =>
        /\ cachable.is_cached <=> cachecall.name \in {"cache", "persist"}
        /\ cachecall.fn = IF cachecall.name = "unpersist" THEN "unpersist" ELSE "persist"
        /\ Len(cachecall.forwarded) = WrappedCount
        /\ Len(persisted) = WrappedCount
        /\ \A i \in 1..WrappedCount :
              /\ cachecall.forwarded[i] = 1
              /\ persisted[i] = cachable.is_cached

\* a Pyramid of several levels was cached or persisted, every backend call
\* succeeding
C24_Witness ==
    /\ cachecall.name \in {"cache", "persist"}
    /\ ~cachecall.raised
    /\ cachable.cls = "Pyramid"
    /\ Cardinality(cachable.levels) >= 2
    /\ \A i \in 1..Len(persisted) : persisted[i]

\* C25: in every state, also after a persist or unpersist in which a backend
\* call raised part-way, is_cached is True only if every wrapped RDD is
\* persisted and False only if none is.
C25_FlagMatchesBackend ==
    ~IsNil(cachable) =>
        /\ cachable.is_cached => \A i \in 1..Len(persisted) : persisted[i]
        /\ ~cachable.is_cached => \A i \in 1..Len(persisted) : ~persisted[i]

====
